---- MODULE Spec2Model ----
(***************************************************************************)
(* Model of the data_utils crate of color_classification: the partial     *)
(* sort (sort.rs), the vector and complex algebra (lin_alg.rs,            *)
(* complex.rs) and the classifiers (classify/knn.rs, classify/bayes.rs,   *)
(* classify/perceptron.rs).                                                *)
(*                                                                         *)
(* Numbers.  An f64 is written <<n, d>>, the rational n/d in lowest terms *)
(* with d > 0, when n and d are integers TLC holds (below 2^31), and      *)
(* <<m, 1, e>>, the integer m * 2^e with m odd, when it is an integer of  *)
(* greater magnitude.  Every such value with d a power of two has less    *)
(* than 53 significant bits, so it is an f64.  RAdd, RSub and RMul give   *)
(* the f64 result, rounded to nearest, ties to even: a sum or product of  *)
(* two values of the first form that TLC can hold has less than 53 bits   *)
(* and is exact in f64 as well, and a value of the second form absorbs a  *)
(* term of at most half a unit in its last place.  A result that needs a  *)
(* significand of 32 to 53 bits is an f64 the model cannot write: its     *)
(* evaluation fails (integer overflow) instead of yielding another value. *)
(* A rational whose denominator is no power of two (the thirds of a mean  *)
(* over three points) stands for the real number the f64 of the code      *)
(* approximates.  Infinities, NaN, subnormal numbers and the sign of zero *)
(* are outside the model.  The arguments of the perceptron calls are      *)
(* chosen so that no f64 operation of a call rounds (see                  *)
(* SlpTrainDataPoints): there the rationals are the values the code       *)
(* computes.                                                               *)
(* A Complex is a record [re, im] of two such numbers, a Point is a       *)
(* sequence of Complex.  perceptron.rs handles the components of a Point  *)
(* as plain f64 (insert(0, 1.0), signum, total_cmp): there a real x is    *)
(* the Complex with im = 0, and its value is the re field.                *)
(*                                                                         *)
(* Labels.  The label type T is modelled by the naturals (T = an unsigned *)
(* integer): Ord is <, T::default() is 0.                                  *)
(***************************************************************************)
EXTENDS Integers, Sequences, FiniteSets, TLC

VARIABLES
    pc,             \* position of the call: see the actions
    slice,          \* sort.rs: the slice being sorted (self)
    slice0,         \* the slice as it was passed in (history)
    num_sorted,     \* sort.rs: the num_sorted argument
    train_data,     \* the classifiers' train_data argument
    test_data,      \* the classifiers' test_data argument
    num_neighbors,  \* knn.rs: the num_neighbors argument
    class_results,  \* the Vec<Classification> built by the call
    learning_rate,  \* perceptron.rs argument
    threshold,      \* perceptron.rs argument
    variant,        \* which perceptron function is called
    weights,        \* perceptron.rs:38 weights
    weights_vec,    \* perceptron.rs:151 weights_vec
    pos_class,      \* perceptron.rs:41
    neg_class,      \* perceptron.rs:43
    train_mean,     \* perceptron.rs:50 / :169
    y,              \* perceptron.rs:57 / :176 the augmented training points
    pass,           \* number of passes of `for _ in 0..10_000` begun
    idx,            \* position of `for d in &y` inside the pass
    misclassified,  \* perceptron.rs:77 / :196
    last_step,      \* history: weights and count before the last training step
    zero_pass,      \* history: some finished pass had misclassified = 0
    left_by,        \* history: how the training loop was left ("break", "cap")
    op,             \* the function called, for the calls of lin_alg.rs and lib.rs
    args,           \* the arguments of that call
    result,         \* what that call returned
    twin            \* a second multiclass call on the same arguments and the
                    \* same random draws, run in step with the first (<<>>: none)

sortVars == <<slice, slice0, num_sorted>>
dataVars == <<train_data, test_data, num_neighbors, class_results>>
slpVars == <<learning_rate, threshold, variant, weights, weights_vec, pos_class,
             neg_class, train_mean, y, pass, idx, misclassified, last_step,
             zero_pass, left_by>>
fnVars == <<op, args, result>>
vars == <<pc, sortVars, dataVars, slpVars, fnVars, twin>>

-----------------------------------------------------------------------------
(* f64 values and their arithmetic *)

Abs(x) == IF x < 0 THEN -x ELSE x
Min(a, b) == IF a < b THEN a ELSE b
Max(a, b) == IF a < b THEN b ELSE a

RECURSIVE GCD(_, _)
GCD(a, b) == IF b = 0 THEN a ELSE GCD(b, a % b)

\* the rational n/d (d # 0) in lowest terms, denominator positive
Rat(n, d) ==
    LET g == GCD(Abs(n), Abs(d))
        s == IF d < 0 THEN -1 ELSE 1
    IN  <<(s * n) \div g, (s * d) \div g>>

R(n) == <<n, 1>>

RECURSIVE BitLen(_)
\* the number of binary digits of the natural number n
BitLen(n) == IF n = 0 THEN 0 ELSE 1 + BitLen(n \div 2)

RECURSIVE Float(_, _)
\* the f64 m * 2^e, m an integer TLC holds: <<m', 1, e'>> with m' odd when
\* the value is an integer of 2^31 or more, the rational otherwise
Float(m, e) ==
    IF m = 0 THEN R(0)
    ELSE IF m % 2 = 0 THEN Float(m \div 2, e + 1)
    ELSE IF e < 0 THEN <<m, 2 ^ (-e)>>
    ELSE IF BitLen(Abs(m)) + e <= 31 THEN <<m * 2 ^ e, 1>>
    ELSE <<m, 1, e>>

\* the exponent e of the f64 a written as a[1] * 2^e, a[1] an integer: minus
\* the logarithm of the denominator, which is a power of two
Exp(a) ==
    IF Len(a) = 3 THEN a[3]
    ELSE CHOOSE e \in {1 - BitLen(a[2])} : a[2] = 2 ^ (-e)

RNeg(a) == [a EXCEPT ![1] = -a[1]]

\* f64 addition, rounded to nearest, ties to even
RAdd(a, b) ==
    IF Len(a) = 2 /\ Len(b) = 2
    THEN \* at most 31 bits each and a sum TLC holds: no rounding
         Rat(a[1] * b[2] + b[1] * a[2], a[2] * b[2])
    ELSE LET \* |v| < 2^top(v) for the operand v of the second form
             top(v) == IF Len(v) = 3 THEN v[3] + BitLen(Abs(v[1])) ELSE 0
             \* the operand of greater magnitude and the other one
             big == IF top(a) >= top(b) THEN a ELSE b
             small == IF top(a) >= top(b) THEN b ELSE a
             \* half a unit in the last place of big is 2^half: big has 53
             \* significant bits below 2^top(big); towards zero from a power
             \* of two the spacing of the f64 is half of that
             half == top(big)
                     - (IF Abs(big[1]) = 1 /\ (big[1] < 0) # (small[1] < 0)
                        THEN 55 ELSE 54)
             \* |small| <= 2^half: then the sum rounds to big, the last
             \* kept bit of big being 0 (ties to even)
             absorbed ==
                 IF Len(small) = 3
                 THEN small[3] + BitLen(Abs(small[1]) - 1) <= half
                 ELSE IF half >= 31 THEN TRUE
                 ELSE IF half >= 0
                      THEN (Abs(small[1]) + small[2] - 1) \div small[2] <= 2 ^ half
                      ELSE Abs(small[1]) * 2 ^ (-half) <= small[2]
             low == Min(Exp(big), Exp(small))
         IN  IF absorbed THEN big
             ELSE \* the sum as an integer multiple of 2^low: TLC holds it,
                  \* so it has less than 53 bits and does not round
                  Float(big[1] * 2 ^ (Exp(big) - low)
                           + small[1] * 2 ^ (Exp(small) - low), low)

\* f64 subtraction: a - b is a + (-b), rounded once
RSub(a, b) ==
    IF Len(a) = 2 /\ Len(b) = 2
    THEN Rat(a[1] * b[2] - b[1] * a[2], a[2] * b[2])
    ELSE RAdd(a, RNeg(b))

\* f64 multiplication: the product of two significands TLC holds has less
\* than 53 bits and does not round
RMul(a, b) ==
    IF Len(a) = 2 /\ Len(b) = 2
    THEN Rat(a[1] * b[1], a[2] * b[2])
    ELSE Float(a[1] * b[1], Exp(a) + Exp(b))

\* a < b: the sign of the f64 a - b is the sign of the real a - b
RLt(a, b) ==
    IF Len(a) = 2 /\ Len(b) = 2
    THEN a[1] * b[2] < b[1] * a[2]
    ELSE RSub(a, b)[1] < 0
\* f64::recip on a non-zero value that is a rational TLC holds
recip(a) == Rat(a[2], a[1] * 2 ^ (IF Len(a) = 3 THEN a[3] ELSE 0))

\* f64::total_cmp on finite values: "Less", "Equal" or "Greater"
total_cmp(a, b) ==
    IF RLt(a, b) THEN "Less" ELSE IF RLt(b, a) THEN "Greater" ELSE "Equal"

\* f64::signum: 1.0 for a positive number and for +0.0, -1.0 for a negative one
signum(a) == IF a[1] >= 0 THEN R(1) ELSE R(-1)

-----------------------------------------------------------------------------
(* complex.rs *)

Cx(re, im) == [re |-> re, im |-> im]
\* From<f64> for Complex
FromReal(x) == Cx(x, R(0))
\* Complex::default()
CZero == Cx(R(0), R(0))

CAdd(a, b) == Cx(RAdd(a.re, b.re), RAdd(a.im, b.im))
CSub(a, b) == Cx(RSub(a.re, b.re), RSub(a.im, b.im))
CMul(a, b) == Cx(RSub(RMul(a.re, b.re), RMul(a.im, b.im)),
                 RAdd(RMul(a.re, b.im), RMul(a.im, b.re)))
CScale(a, scalar) == Cx(RMul(a.re, scalar), RMul(a.im, scalar))
conjugate(a) == Cx(a.re, RMul(a.im, R(-1)))
CNeg(a) == CScale(a, R(-1))

RECURSIVE CSum(_)
\* Sum for Complex: fold from Complex::default()
CSum(s) == IF s = <<>> THEN CZero
           ELSE CAdd(CSum(SubSeq(s, 1, Len(s) - 1)), s[Len(s)])

-----------------------------------------------------------------------------
(* lin_alg.rs *)

\* Point::scale
scale(p, scalar) == [i \in 1..Len(p) |-> CScale(p[i], scalar)]

\* a dot product that conjugates its first operand
dot_conj(a, b) ==
    CSum([i \in 1..Min(Len(a), Len(b)) |-> CMul(conjugate(a[i]), b[i])])

\* Point::dot: zip stops at the shorter operand
dot(a, b) == CSum([i \in 1..Min(Len(a), Len(b)) |-> CMul(a[i], b[i])])

\* Neg for Point
PNeg(p) == scale(p, R(-1))

\* &Point + &Point that always adds into a clone of self
AddRefRef_into_self(self, rhs) ==
    [i \in 1..Len(self) |->
        IF i <= Len(rhs) THEN CAdd(self[i], rhs[i]) ELSE self[i]]

\* Add for &Point: the operand of more dimensions is cloned and the other one
\* added into its prefix
AddRefRef(self, rhs) ==
    IF Len(self) >= Len(rhs)
    THEN [i \in 1..Len(self) |->
            IF i <= Len(rhs) THEN CAdd(self[i], rhs[i]) ELSE self[i]]
    ELSE [i \in 1..Len(rhs) |->
            IF i <= Len(self) THEN CAdd(rhs[i], self[i]) ELSE rhs[i]]

\* Add<&Self> for Point: add over the common prefix, then extend by the
\* components of rhs beyond self
AddRef(self, rhs) ==
    [i \in 1..Max(Len(self), Len(rhs)) |->
        IF i <= Len(self) /\ i <= Len(rhs) THEN CAdd(self[i], rhs[i])
        ELSE IF i <= Len(self) THEN self[i] ELSE rhs[i]]

\* Sub for &Point
SubRefRef(self, rhs) ==
    IF Len(self) >= Len(rhs)
    THEN [i \in 1..Len(self) |->
            IF i <= Len(rhs) THEN CSub(self[i], rhs[i]) ELSE self[i]]
    ELSE PNeg([i \in 1..Len(rhs) |->
            IF i <= Len(self) THEN CSub(rhs[i], self[i]) ELSE rhs[i]])

\* AddAssign<&Self> for Point
AddAssignRef(self, rhs) ==
    [i \in 1..Max(Len(self), Len(rhs)) |->
        IF i <= Len(self) /\ i <= Len(rhs) THEN CAdd(self[i], rhs[i])
        ELSE IF i <= Len(self) THEN self[i] ELSE rhs[i]]

\* SubAssign<&Self> for Point
SubAssignRef(self, rhs) ==
    [i \in 1..Max(Len(self), Len(rhs)) |->
        IF i <= Len(self) /\ i <= Len(rhs) THEN CSub(self[i], rhs[i])
        ELSE IF i <= Len(self) THEN self[i] ELSE CNeg(rhs[i])]

\* Add for Point (both operands owned): the operand of more dimensions is
\* kept and the other one added into its prefix
AddOwned(self, rhs) ==
    IF Len(self) >= Len(rhs)
    THEN [i \in 1..Len(self) |->
            IF i <= Len(rhs) THEN CAdd(self[i], rhs[i]) ELSE self[i]]
    ELSE [i \in 1..Len(rhs) |->
            IF i <= Len(self) THEN CAdd(rhs[i], self[i]) ELSE rhs[i]]

\* Add<Point> for &Point: self is added into the prefix of rhs, then rhs is
\* extended by the components of self beyond it
AddRefOwned(self, rhs) ==
    [i \in 1..Max(Len(self), Len(rhs)) |->
        IF i <= Len(self) /\ i <= Len(rhs) THEN CAdd(rhs[i], self[i])
        ELSE IF i <= Len(rhs) THEN rhs[i] ELSE self[i]]

\* AddAssign for Point: *self += &rhs
AddAssignOwned(self, rhs) == AddAssignRef(self, rhs)

\* Sub for Point (both operands owned)
SubOwned(self, rhs) ==
    IF Len(self) >= Len(rhs)
    THEN [i \in 1..Len(self) |->
            IF i <= Len(rhs) THEN CSub(self[i], rhs[i]) ELSE self[i]]
    ELSE PNeg([i \in 1..Len(rhs) |->
            IF i <= Len(self) THEN CSub(rhs[i], self[i]) ELSE rhs[i]])

\* Sub<&Self> for Point: subtract over the common prefix, then extend by the
\* negated components of rhs beyond self
SubRef(self, rhs) ==
    [i \in 1..Max(Len(self), Len(rhs)) |->
        IF i <= Len(self) /\ i <= Len(rhs) THEN CSub(self[i], rhs[i])
        ELSE IF i <= Len(self) THEN self[i] ELSE CNeg(rhs[i])]

\* &Point - Point that extends rhs by the components of self as they are
SubRefOwned_plain_extend(self, rhs) ==
    PNeg([i \in 1..Max(Len(self), Len(rhs)) |->
            IF i <= Len(self) /\ i <= Len(rhs) THEN CSub(rhs[i], self[i])
            ELSE IF i <= Len(rhs) THEN rhs[i] ELSE self[i]])

\* Sub<Point> for &Point: rhs - self over the common prefix, rhs extended by
\* the negated components of self beyond it, and the whole negated
SubRefOwned(self, rhs) ==
    PNeg([i \in 1..Max(Len(self), Len(rhs)) |->
            IF i <= Len(self) /\ i <= Len(rhs) THEN CSub(rhs[i], self[i])
            ELSE IF i <= Len(rhs) THEN rhs[i] ELSE CNeg(self[i])])

\* SubAssign for Point: *self -= &rhs
SubAssignOwned(self, rhs) == SubAssignRef(self, rhs)

RECURSIVE SumRef(_)
\* Sum<&Point> for Point: fold from Point::default() with Point + &Point
SumRef(ps) == IF ps = <<>> THEN <<>>
              ELSE AddRef(SumRef(SubSeq(ps, 1, Len(ps) - 1)), ps[Len(ps)])


RECURSIVE ISqrtFrom(_, _)
ISqrtFrom(n, r) == IF (r + 1) * (r + 1) > n THEN r ELSE ISqrtFrom(n, r + 1)
\* f64::sqrt on a rational that is the square of a rational TLC holds
RSqrt(a) ==
    Rat(ISqrtFrom(a[1] * 2 ^ (IF Len(a) = 3 THEN a[3] ELSE 0), 0),
        ISqrtFrom(a[2], 0))

\* f64::hypot, for arguments whose sum of squares is the square of a rational
hypot(re, im) == RSqrt(RAdd(RMul(re, re), RMul(im, im)))

\* Complex::magnitude
complex_magnitude(self) ==
    IF self.im = R(0) THEN self.re ELSE hypot(self.re, self.im)

\* Point::magnitude without its outer f64::sqrt: the model keeps the square of
\* the magnitude.  sqrt is strictly increasing on the non-negative numbers, so
\* total_cmp orders two magnitudes as it orders their squares.
magnitude_sq(self) ==
    complex_magnitude(CSum([i \in 1..Len(self) |-> CMul(self[i], conjugate(self[i]))]))

-----------------------------------------------------------------------------
(* sort.rs *)

swap(s, a, b) == [s EXCEPT ![a] = s[b], ![b] = s[a]]

\* the comparison with its operands exchanged: descending distance
dist_cmp_reversed(d1, d2) == total_cmp(d2.dist, d1.dist)

\* The comparison closure of knn.rs:47, |d1, d2| d1.dist.total_cmp(&d2.dist):
\* the slices the model sorts hold Dist records [data, dist].
dist_cmp(d1, d2) == total_cmp(d1.dist, d2.dist)

RECURSIVE sort_inner_short(_, _, _)
\* sort_inner with the range (i+1..len-1).rev(): position i is never compared
sort_inner_short(s, i, j) ==
    IF j <= i THEN s
    ELSE sort_inner_short(IF dist_cmp(s[j], s[j + 1]) = "Greater"
                          THEN swap(s, j, j + 1) ELSE s, i, j - 1)

RECURSIVE sort_inner_swap_equal(_, _, _)
\* sort_inner with is_ge() for is_gt(): elements that compare Equal are swapped
sort_inner_swap_equal(s, i, j) ==
    IF j < i THEN s
    ELSE sort_inner_swap_equal(IF dist_cmp(s[j], s[j + 1]) # "Less"
                               THEN swap(s, j, j + 1) ELSE s, i, j - 1)

RECURSIVE sort_inner(_, _, _)
\* sort.rs:38-42, `for j in (i..(self.len() - 1)).rev()`, 1-based: j runs from
\* Len(s) - 1 down to i and compares s[j] with s[j + 1]
sort_inner(s, i, j) ==
    IF j < i THEN s
    ELSE sort_inner(IF dist_cmp(s[j], s[j + 1]) = "Greater"
                    THEN swap(s, j, j + 1) ELSE s, i, j - 1)

RECURSIVE sort_outer(_, _, _)
\* sort.rs:37, `for i in 0..num_sorted`, 1-based: i runs from 1 to n_sorted
sort_outer(s, n_sorted, i) ==
    IF i > n_sorted THEN s
    ELSE sort_outer(sort_inner(s, i, Len(s) - 1), n_sorted, i + 1)

\* PartialSort::partial_sort_by for [T] with the comparison dist_cmp.
\* `self.len() - 1` underflows when the slice is empty and num_sorted > 0: see
\* sort_panics.
partial_sort_by(self, n_sorted) == sort_outer(self, n_sorted, 1)

\* usize underflow of `self.len() - 1` at sort.rs:38 (evaluated once per i)
sort_panics(self, n_sorted) == Len(self) = 0 /\ n_sorted > 0

\* Ord::cmp on usize
usize_cmp(a, b) == IF a < b THEN "Less" ELSE IF a > b THEN "Greater" ELSE "Equal"

\* The comparison closures handed to Iterator::max_by over (class, value) pairs:
\* knn.rs:63 a.1.cmp(b.1), bayes.rs:76 a.1.re.total_cmp(&b.1.re),
\* perceptron.rs:206 and :246 a.1.total_cmp(&b.1)
compare_by(by, a, b) ==
    CASE by = "count" -> usize_cmp(a[2], b[2])
      [] by = "re" -> total_cmp(a[2].re, b[2].re)
      [] by = "f64" -> total_cmp(a[2], b[2])

RECURSIVE max_fold(_, _, _, _)
\* the fold of Iterator::max_by: the current maximum is kept only while it
\* compares Greater than the next element
max_fold(iter, by, best, i) ==
    IF i > Len(iter) THEN best
    ELSE max_fold(iter, by,
                  IF compare_by(by, best, iter[i]) = "Greater" THEN best ELSE iter[i],
                  i + 1)

\* Iterator::max_by: None (<<>>) on an empty iterator, else Some(<<e>>); of
\* several equal maxima the last one is returned.  (iter \o <<>> is iter, with
\* its elements computed once.)
max_by(iter, by) ==
    IF iter = <<>> THEN <<>> ELSE <<max_fold(iter \o <<>>, by, iter[1], 2)>>

\* T::default()
DefaultLabel == 0

\* Option::map_or_else(T::default, |(class, _)| class.clone())
class_or_default(opt) == IF opt = <<>> THEN DefaultLabel ELSE opt[1][1]

-----------------------------------------------------------------------------
(* bounds and input domains *)

\* longest slice handed to partial_sort_by
MaxLen == 4
\* longest training sequence of k_nearest_neighbor and bayes_plug_in
MaxTrain == 3
\* longest test sequence
MaxTest == 2

c0 == FromReal(R(0))
c1 == FromReal(R(1))
c2 == FromReal(R(2))
ci == Cx(R(0), R(1))

\* class labels of the training points (all differ from T::default())
Labels == {1, 2, 3}
\* training and test vectors: dimensions 1 and 2, real and complex components
TrainPoints == {<<c0>>, <<c2>>, <<ci>>, <<c1, c1>>}
TestPoints == {<<c1>>, <<ci>>, <<c0, c1>>}
\* lib.rs:23-28 DataPoint { point, class }
DataPoint(point, class) == [point |-> point, class |-> class]
TrainDataPoints == {DataPoint(p, c) : p \in TrainPoints, c \in Labels}
\* the class of a test point is carried along and never read
TestDataPoints == {DataPoint(p, DefaultLabel) : p \in TestPoints}

SeqsUpTo(S, n) == UNION {[1..m -> S] : m \in 0..n}

\* every order in which an iterator may yield the elements of the set S once
Orders(S) ==
    {s \in [1..Cardinality(S) -> S] : \A i, j \in 1..Cardinality(S) : s[i] = s[j] => i = j}

RECURSIVE Ascending(_)
\* the elements of a set of labels in ascending order (BTreeMap iteration)
Ascending(S) ==
    IF S = {} THEN <<>>
    ELSE LET m == CHOOSE x \in S : \A z \in S : x <= z
         IN  <<m>> \o Ascending(S \ {m})

-----------------------------------------------------------------------------
(* classify/knn.rs *)

\* knn.rs:39-45: one Dist { data, dist } per training point, in training
\* order; data is the reference to the training point, modelled by its index
knn_distances(train, data) ==
    [j \in 1..Len(train) |->
        [data |-> j, dist |-> magnitude_sq(SubRefRef(train[j].point, data.point))]]

\* the slice distances[0..=num_neighbors], one neighbour too many
knn_nearest_one_more(train, data, k) ==
    SubSeq(partial_sort_by(knn_distances(train, data), k), 1, Min(k + 1, Len(train)))

\* knn_nearest without the partial sort: the first k training points
knn_nearest_unsorted(train, data, k) == SubSeq(knn_distances(train, data), 1, k)

\* knn.rs:47-50: partial sort, then the slice distances[0..num_neighbors]
knn_nearest(train, data, k) ==
    SubSeq(partial_sort_by(knn_distances(train, data), k), 1, k)

\* knn.rs:52-59: votes, the number of nearest neighbours per class
knn_votes(train, nearest) ==
    LET cls == [i \in 1..Len(nearest) |-> train[nearest[i].data].class]
    IN  [c \in {cls[i] : i \in 1..Len(cls)} |->
            Cardinality({i \in 1..Len(cls) : cls[i] = c})]

\* knn.rs:62-65: max_by over votes.iter(); order is the order in which the
\* HashMap yields its keys
knn_class_guess(votes, order) ==
    class_or_default(max_by([i \in 1..Len(order) |-> <<order[i], votes[order[i]]>>],
                            "count"))

\* the guesses k_nearest_neighbor can return for one test point: std's HashMap
\* iterates in an order that depends on its per-map random hash seed
knn_guesses(train, data, k) ==
    LET votes == knn_votes(train, knn_nearest(train, data, k))
    IN  {knn_class_guess(votes, order) : order \in Orders(DOMAIN votes)}

\* the assertion left out
knn_assert_none(train, k) == TRUE

\* knn.rs:21-24 assert!(train_data.len() >= num_neighbors)
knn_assert(train, k) == Len(train) >= k

\* the call panics: the assertion fails, or (what the assertion excludes) the
\* slice distances[0..num_neighbors] of knn.rs:50 is out of range for a test
\* point
knn_panics(train, tests, k) ==
    ~knn_assert(train, k) \/ (Len(tests) > 0 /\ k > Len(train))

-----------------------------------------------------------------------------
(* classify/bayes.rs *)

\* bayes.rs:29-36: the points of one class, in training order
bayes_group(train, class) ==
    LET InClass(d) == d.class = class
        g == SelectSeq(train, InClass)
    IN  [i \in 1..Len(g) |-> g[i].point]

\* bayes.rs:39-44: mean of a class
bayes_mean(train, class) ==
    LET points == bayes_group(train, class)
    IN  scale(SumRef(points), recip(R(Len(points))))

\* bayes_weights with w = 2 * mean, the conjugation left out
bayes_weights_no_conj(train, class) ==
    LET mean == bayes_mean(train, class)
        mean_conj == [i \in 1..Len(mean) |-> conjugate(mean[i])]
    IN  [w |-> scale(mean, R(2)), w_0 |-> dot(mean, mean_conj)]

\* bayes.rs:47-64: Weights { w, w_0 } of a class
bayes_weights(train, class) ==
    LET mean == bayes_mean(train, class)
        mean_conj == [i \in 1..Len(mean) |-> conjugate(mean[i])]
    IN  [w |-> scale(mean_conj, R(2)), w_0 |-> dot(mean, mean_conj)]

\* train_data_weights grouped in a Vec: the classes in the order in which the
\* training data first shows them
bayes_train_data_weights_encounter(train) ==
    LET firsts == {i \in 1..Len(train) :
                      \A j \in 1..(i - 1) : train[j].class # train[i].class}
        ord == Ascending(firsts)
    IN  [n \in 1..Len(ord) |->
            <<train[ord[n]].class, bayes_weights(train, train[ord[n]].class)>>]

\* bayes.rs:47-64 train_data_weights: (class, weights) in BTreeMap key order
bayes_train_data_weights(train) ==
    LET classes == Ascending({train[i].class : i \in 1..Len(train)})
    IN  [n \in 1..Len(classes) |-> <<classes[n], bayes_weights(train, classes[n])>>]

\* bayes_plug_in with unwrap() in place of map_or_else(T::default, ..): the
\* call panics at the first test point when there is no class
bayes_panics_unwrap(train, tests) == train = <<>> /\ Len(tests) > 0

\* bayes.rs:28-82: bayes_plug_in holds no assertion, index or unwrap: no input
\* makes it panic
bayes_panics(train, tests) == FALSE

\* bayes.rs:71-77 for one test point
bayes_class_guess(tdw, data) ==
    class_or_default(max_by(
        [n \in 1..Len(tdw) |->
            <<tdw[n][1], CSub(dot(tdw[n][2].w, data.point), tdw[n][2].w_0)>>],
        "re"))

-----------------------------------------------------------------------------
(* the calls *)

\* values of the variables a specification does not use
NoFn == op = "none" /\ args = <<>> /\ result = <<>>
NoTwin == twin = <<>>
NoSort == slice = <<>> /\ slice0 = <<>> /\ num_sorted = 0
NoData == train_data = <<>> /\ test_data = <<>> /\ num_neighbors = 0
          /\ class_results = <<>>
NoSlp == /\ learning_rate = R(0) /\ threshold = R(0) /\ variant = "none"
         /\ weights = <<>> /\ weights_vec = <<>>
         /\ pos_class = DefaultLabel /\ neg_class = DefaultLabel
         /\ train_mean = <<>> /\ y = <<>> /\ pass = 0 /\ idx = 0
         /\ misclassified = 0 /\ last_step = <<>> /\ zero_pass = FALSE
         /\ left_by = "none"

\* keys and tags of the sorted elements: equal keys with different tags are
\* different elements that compare Equal
SortElems ==
    {[data |-> g, dist |-> k] : g \in {1, 2}, k \in {R(0), R(1), R(2)}}

InitSort ==
    /\ pc = "call"
    /\ slice \in SeqsUpTo(SortElems, MaxLen)
    /\ slice0 = slice
    /\ num_sorted \in 0..(Len(slice) + 1)
    /\ NoData /\ NoSlp /\ NoFn /\ NoTwin

\* a call slice.partial_sort_by(num_sorted, dist_cmp)
PartialSortCall ==
    /\ UNCHANGED <<fnVars, twin>>
    /\ pc = "call"
    /\ ~sort_panics(slice, num_sorted)
    /\ slice' = partial_sort_by(slice, num_sorted)
    /\ pc' = "ret"
    /\ UNCHANGED <<slice0, num_sorted, dataVars, slpVars>>

\* the call panics on the usize underflow
PartialSortPanic ==
    /\ UNCHANGED <<fnVars, twin>>
    /\ pc = "call"
    /\ sort_panics(slice, num_sorted)
    /\ pc' = "panic"
    /\ UNCHANGED <<sortVars, dataVars, slpVars>>

NextSort == PartialSortCall \/ PartialSortPanic
SpecSort == InitSort /\ [][NextSort]_vars

InitData ==
    /\ train_data \in SeqsUpTo(TrainDataPoints, MaxTrain)
    /\ test_data \in SeqsUpTo(TestDataPoints, MaxTest)
    /\ class_results = <<>>

InitKnn ==
    /\ pc = "call"
    /\ InitData
    /\ num_neighbors \in 0..(MaxTrain + 1)
    /\ NoSort /\ NoSlp /\ NoFn /\ NoTwin

\* lib/classify/mod.rs Classification { data, class_guess }: data is the
\* reference to the test point, modelled by its index in test_data
Classification(i, class_guess) == [data |-> i, class_guess |-> class_guess]

RECURSIVE knn_results(_, _, _, _)
\* knn.rs:27-69 test_data.iter().map(..).collect(): the result vectors the call
\* can build for the first n test points, one Classification per test point
knn_results(train, tests, k, n) ==
    IF n = 0 THEN {<<>>}
    ELSE {Append(r, Classification(n, g)) :
            r \in knn_results(train, tests, k, n - 1),
            g \in knn_guesses(train, tests[n], k)}

\* k_nearest_neighbor returns: one Classification per test point, in order
KnnCall ==
    /\ UNCHANGED <<fnVars, twin>>
    /\ pc = "call"
    /\ ~knn_panics(train_data, test_data, num_neighbors)
    /\ class_results' \in knn_results(train_data, test_data, num_neighbors,
                                      Len(test_data))
    /\ pc' = "ret"
    /\ UNCHANGED <<train_data, test_data, num_neighbors, sortVars, slpVars>>

\* k_nearest_neighbor panics
KnnPanic ==
    /\ UNCHANGED <<fnVars, twin>>
    /\ pc = "call"
    /\ knn_panics(train_data, test_data, num_neighbors)
    /\ pc' = "panic"
    /\ UNCHANGED <<dataVars, sortVars, slpVars>>

NextKnn == KnnCall \/ KnnPanic
SpecKnn == InitKnn /\ [][NextKnn]_vars

InitBayes ==
    /\ pc = "call"
    /\ InitData
    /\ num_neighbors = 0
    /\ NoSort /\ NoSlp /\ NoFn /\ NoTwin

\* bayes_plug_in: one Classification per test point, in order
BayesCall ==
    /\ UNCHANGED <<fnVars, twin>>
    /\ pc = "call"
    /\ IF bayes_panics(train_data, test_data)
       THEN pc' = "panic" /\ class_results' = class_results
       ELSE /\ \E tdw \in {bayes_train_data_weights(train_data)} :
                  class_results' =
                      [i \in 1..Len(test_data) |->
                          Classification(i, bayes_class_guess(tdw, test_data[i]))]
            /\ pc' = "ret"
    /\ UNCHANGED <<train_data, test_data, num_neighbors, sortVars, slpVars>>

NextBayes == BayesCall
SpecBayes == InitBayes /\ [][NextBayes]_vars

-----------------------------------------------------------------------------
(* classify/perceptron.rs *)

\* perceptron.rs:73 and :192: the number of passes `for _ in 0..10_000` yields
PassCap == 10000

\* values fastrand::f64().mul_add(2.0, -1.0) can take; all lie in [-1.0, 1.0)
InitWeightVals == {Rat(-1, 2), Rat(1, 2)}
\* the arguments of the call
LearningRates == {Rat(1, 2)}
\* Training points: one dimension, three vectors, three labels.  The vectors
\* are multiples of 3, the sequences hold at most 4 points, learning rate and
\* initial weights are multiples of 1/2: the mean, sum * (1.0 / n), is the
\* exact quotient (for n = 3 the product of a multiple of 3 up to 18 with the
\* f64 nearest to 1/3 rounds to the third), every other value of a call is a
\* binary fraction of a few bits, and so every f64 operation of a call
\* yields the exact value: the rationals of the model are the f64 values of
\* the code.
SlpTrainDataPoints ==
    {DataPoint(<<c0>>, 1), DataPoint(<<FromReal(R(3))>>, 2),
     DataPoint(<<FromReal(R(6))>>, 3)}
\* test sequences: empty, one point, two points of different dimension
SlpTestSets ==
    {<<>>, <<DataPoint(<<c0>>, DefaultLabel)>>,
     <<DataPoint(<<c2, c1>>, DefaultLabel), DataPoint(<<c1>>, DefaultLabel)>>}

\* generate_random_weights(size), perceptron.rs:14-20: the Points of `size`
\* components it can return, each component a draw of its own
generate_random_weights(size) ==
    [1..size -> {FromReal(v) : v \in InitWeightVals}]

\* perceptron.rs:50-54 and :169-173 train_mean; on an empty training set the
\* sum is the empty Point and the scale factor 1.0 / 0.0 multiplies nothing
slp_train_mean(train) ==
    LET sum == SumRef([i \in 1..Len(train) |-> train[i].point])
    IN  IF Len(train) = 0 THEN sum ELSE scale(sum, recip(R(Len(train))))

\* perceptron.rs:61-63 and :113-114: offset by the mean, then insert(0, 1.0)
augment(point, mean) == <<FromReal(R(1))>> \o SubRefRef(point, mean)

\* perceptron.rs:57-69 and :176-188: y, the training data mapped to [1, x]
slp_y(train, mean) ==
    [i \in 1..Len(train) |-> DataPoint(augment(train[i].point, mean), train[i].class)]

\* find() without its predicate: every training point is a candidate
other_classes_unfiltered(train) == train

\* perceptron.rs:43-47: the classes that differ from pos_class, in training
\* order; find() takes the first, expect() panics when there is none
other_classes(train) ==
    LET Differs(d) == d.class # train[1].class
    IN  SelectSeq(train, Differs)

\* the step with the two class values exchanged
slp_step_flipped(w, mis, d, pos, lr) ==
    LET lin_class_value == dot(w, d.point).re
        class_guess_value == signum(lin_class_value)
        class_value == IF d.class = pos THEN R(-1) ELSE R(1)
        error == RSub(class_value, class_guess_value)
        weight_error == scale(d.point, error)
        weight_adjustment == scale(weight_error, lr)
    IN  IF error # R(0)
        THEN [weights |-> AddAssignRef(w, weight_adjustment),
              misclassified |-> mis + 1, error |-> error]
        ELSE [weights |-> w, misclassified |-> mis, error |-> error]

\* the step without the scaling by the learning rate
slp_step_unit_rate(w, mis, d, pos, lr) ==
    LET lin_class_value == dot(w, d.point).re
        class_guess_value == signum(lin_class_value)
        class_value == IF d.class = pos THEN R(1) ELSE R(-1)
        error == RSub(class_value, class_guess_value)
        weight_error == scale(d.point, error)
    IN  IF error # R(0)
        THEN [weights |-> AddAssignRef(w, weight_error),
              misclassified |-> mis + 1, error |-> error]
        ELSE [weights |-> w, misclassified |-> mis, error |-> error]

\* perceptron.rs:80-100: one step of `for d in &y` in the binary variant
slp_step(w, mis, d, pos, lr) ==
    LET lin_class_value == dot(w, d.point).re
        class_guess_value == signum(lin_class_value)
        class_value == IF d.class = pos THEN R(1) ELSE R(-1)
        error == RSub(class_value, class_guess_value)
        weight_error == scale(d.point, error)
        weight_adjustment == scale(weight_error, lr)
    IN  IF error # R(0)
        THEN [weights |-> AddAssignRef(w, weight_adjustment),
              misclassified |-> mis + 1, error |-> error]
        ELSE [weights |-> w, misclassified |-> mis, error |-> error]

\* perceptron.rs:118-122: the guess of the binary variant for a test point
slp_class_guess(w, mean, pos, neg, data) ==
    LET class_result == dot(w, augment(data.point, mean)).re
    IN  IF RLt(R(0), class_result) THEN pos ELSE neg

\* perceptron.rs:201-208 and :243-247: the arg-max over weights_vec, as the
\* Option that max_by returns
multi_max(wv, point) ==
    max_by([n \in 1..Len(wv) |-> <<wv[n].class, dot(wv[n].w, point).re>>], "f64")

\* the step that reinforces the true class and leaves the other classes alone
multi_step_reinforce_only(wv, mis, d, lr) ==
    LET class_guess == multi_max(wv, d.point)[1][1]
        weight_adjustment == scale(d.point, lr)
    IN  IF class_guess # d.class
        THEN [weights_vec |->
                 [n \in 1..Len(wv) |->
                     [class |-> wv[n].class,
                      w |-> IF wv[n].class = d.class
                            THEN AddAssignRef(wv[n].w, weight_adjustment)
                            ELSE wv[n].w]],
              misclassified |-> mis + 1, class_guess |-> class_guess]
        ELSE [weights_vec |-> wv, misclassified |-> mis, class_guess |-> class_guess]

\* perceptron.rs:199-226: one step of `for d in &y` in the multiclass variant
multi_step(wv, mis, d, lr) ==
    LET class_guess == multi_max(wv, d.point)[1][1]
        weight_adjustment == scale(d.point, lr)
    IN  IF class_guess # d.class
        THEN [weights_vec |->
                 [n \in 1..Len(wv) |->
                     [class |-> wv[n].class,
                      w |-> IF wv[n].class = d.class
                            THEN AddAssignRef(wv[n].w, weight_adjustment)
                            ELSE SubAssignRef(wv[n].w, weight_adjustment)]],
              misclassified |-> mis + 1, class_guess |-> class_guess]
        ELSE [weights_vec |-> wv, misclassified |-> mis, class_guess |-> class_guess]

\* the range 0..=10_000, one pass more
loop_continues_inclusive(passes) == passes <= PassCap

\* perceptron.rs:73 and :192: `for _ in 0..10_000` yields another iteration
\* after `passes` iterations
loop_continues(passes) == passes < PassCap

\* perceptron.rs:103 and :229: (misclassified as f64) < threshold * len as f64
stop_early(mis, thr, train) == RLt(R(mis), RMul(thr, R(Len(train))))

-----------------------------------------------------------------------------
(* the perceptron calls *)

\* The twin call.  It is multiclass_single_layer_perceptron called on the same
\* arguments, with a random generator that yields the same sequence: the n-th
\* weight vector drawn is the same, and so is every shuffled order of y.  Its
\* HashSet (a RandomState of its own) yields the classes in an order of its
\* own.  A twin that has left its loop by the break draws no more and takes
\* no part in later passes; a twin still in its loop when the call has left
\* its own goes through its remaining passes, on shuffles the call never
\* drew, before it classifies.
TwinOn ==
    [weights_vec |-> <<>>, misclassified |-> 0, stopped |-> FALSE,
     class_results |-> <<>>]

\* perceptron.rs:159-165: the n-th draw goes to the n-th class of the iteration
TwinStart(tw, ws, order) ==
    IF tw = <<>> THEN tw
    ELSE [tw EXCEPT !.weights_vec =
             [n \in 1..Len(order) |-> [class |-> order[n], w |-> ws[n]]]]

\* perceptron.rs:196
TwinBeginPass(tw) ==
    IF tw = <<>> \/ tw.stopped THEN tw ELSE [tw EXCEPT !.misclassified = 0]

\* perceptron.rs:199-226 on the same point d
TwinStep(tw, d, lr) ==
    IF tw = <<>> \/ tw.stopped THEN tw
    ELSE LET r == multi_step(tw.weights_vec, tw.misclassified, d, lr)
         IN  [tw EXCEPT !.weights_vec = r.weights_vec,
                        !.misclassified = r.misclassified]

\* perceptron.rs:229-231
TwinEndPass(tw, thr, train) ==
    IF tw = <<>> \/ tw.stopped THEN tw
    ELSE [tw EXCEPT !.stopped = stop_early(tw.misclassified, thr, train)]

RECURSIVE TwinRuns(_, _, _, _, _, _)
\* perceptron.rs:192-232: the twin after `passes` passes runs the rest of its
\* training loop alone: the states it can leave the loop in, by its break or
\* with the range exhausted, over every shuffle of y
TwinRuns(tw, passes, ys, lr, thr, train) ==
    LET RECURSIVE Steps(_, _)
        Steps(t, ds) == IF ds = <<>> THEN t ELSE Steps(TwinStep(t, ds[1], lr), Tail(ds))
    IN  IF tw = <<>> \/ tw.stopped \/ ~loop_continues(passes) THEN {tw}
        ELSE UNION {TwinRuns(TwinEndPass(Steps(TwinBeginPass(tw),
                                               [i \in 1..Len(ys) |-> ys[order[i]]] \o <<>>),
                                         thr, train),
                             passes + 1, ys, lr, thr, train) :
                       order \in Orders(1..Len(ys))}

\* perceptron.rs:235-252
TwinInfer(tw, tests, mean) ==
    IF tw = <<>> THEN tw
    ELSE [tw EXCEPT !.class_results =
             [i \in 1..Len(tests) |->
                 Classification(i,
                     class_or_default(multi_max(tw.weights_vec,
                                                augment(tests[i].point, mean))))]]

\* a call: the arguments of a perceptron function
Call(train, tests, lr, thr) ==
    [train |-> train, tests |-> tests, learning_rate |-> lr, threshold |-> thr]

\* a point of the real line separates the training vectors (of one dimension)
\* of the first label from those of the other labels; a training set of one
\* label counts as separated
BinarySeparable(train) ==
    \E s \in {1, -1} :
        \A i, j \in 1..Len(train) :
            (train[i].class = train[1].class /\ train[j].class # train[1].class) =>
                RLt(RMul(R(s), train[i].point[1].re), RMul(R(s), train[j].point[1].re))

\* The calls of single_layer_perceptron.  With threshold 1/2: every separable
\* training sequence of up to MaxSlpTrain points (the loop is left by its
\* break after a few passes) with every test sequence, and two points of no
\* dimension under two labels (no weights separate them: every pass
\* misclassifies and the loop runs all its PassCap passes).  With threshold
\* 0.0, where the loop runs all its PassCap passes as well: one separable call.
MaxSlpTrain == 3
BinaryCalls ==
    {Call(train, tests, lr, Rat(1, 2)) :
        train \in {t \in SeqsUpTo(SlpTrainDataPoints, MaxSlpTrain) : BinarySeparable(t)},
        tests \in SlpTestSets, lr \in LearningRates}
    \cup {Call(<<DataPoint(<<>>, 1), DataPoint(<<>>, 2)>>,
               <<DataPoint(<<>>, DefaultLabel)>>, lr, Rat(1, 2)) : lr \in LearningRates}
    \cup {Call(<<DataPoint(<<c0>>, 1), DataPoint(<<FromReal(R(3))>>, 2)>>,
               <<DataPoint(<<c0>>, DefaultLabel)>>, lr, R(0)) : lr \in LearningRates}

\* The calls of multiclass_single_layer_perceptron, all with threshold 1/2:
\* training sequences of up to MaxMultiTrain points with every test sequence
\* (on the empty training sequence no pass breaks the loop: it runs all its
\* PassCap passes), and the three labels with a test point of one dimension.
MaxMultiTrain == 2
MultiCalls ==
    {Call(train, tests, lr, Rat(1, 2)) :
        train \in SeqsUpTo(SlpTrainDataPoints, MaxMultiTrain),
        tests \in SlpTestSets, lr \in LearningRates}
    \cup {Call(<<DataPoint(<<c0>>, 1), DataPoint(<<FromReal(R(3))>>, 2),
                 DataPoint(<<FromReal(R(6))>>, 3)>>,
               <<DataPoint(<<c0>>, DefaultLabel)>>, lr, Rat(1, 2)) : lr \in LearningRates}

InitPerceptronCall(variants) ==
    /\ pc = "call"
    /\ variant \in variants
    /\ \E c \in (IF variant = "binary" THEN BinaryCalls ELSE MultiCalls) :
          /\ train_data = c.train
          /\ test_data = c.tests
          /\ learning_rate = c.learning_rate
          /\ threshold = c.threshold
    /\ num_neighbors = 0 /\ class_results = <<>>
    /\ weights = <<>> /\ weights_vec = <<>>
    /\ pos_class = DefaultLabel /\ neg_class = DefaultLabel
    /\ train_mean = <<>> /\ y = <<>> /\ pass = 0 /\ idx = 0
    /\ misclassified = 0 /\ last_step = <<>> /\ zero_pass = FALSE
    /\ left_by = "none"
    /\ NoSort /\ NoFn

InitPerceptron(variants) == InitPerceptronCall(variants) /\ NoTwin

\* the classes of the training data
classes_of(train) == {train[i].class : i \in 1..Len(train)}

\* single_layer_perceptron panics before training: train_data[0] on an empty
\* training set (perceptron.rs:38), or expect() when no class differs from the
\* first (perceptron.rs:47)
slp_panics(train) == Len(train) = 0 \/ other_classes(train) = <<>>

\* test_data[0] evaluated once, ahead of the iteration over the classes
multi_panics_hoisted(train, tests) == Len(tests) = 0

\* multiclass_single_layer_perceptron panics before training: test_data[0] on
\* an empty test set, evaluated once per class (perceptron.rs:163)
multi_panics(train, tests) == classes_of(train) # {} /\ Len(tests) = 0

SlpPanic ==
    /\ UNCHANGED <<fnVars, twin>>
    /\ pc = "call" /\ variant = "binary"
    /\ slp_panics(train_data)
    /\ pc' = "panic"
    /\ UNCHANGED <<sortVars, dataVars, slpVars>>

\* perceptron.rs:37-69: up to the training loop
SlpStart ==
    /\ UNCHANGED <<fnVars, twin>>
    /\ pc = "call" /\ variant = "binary"
    /\ ~slp_panics(train_data)
    /\ weights' \in generate_random_weights(Len(train_data[1].point) + 1)
    /\ pos_class' = train_data[1].class
    /\ neg_class' = other_classes(train_data)[1].class
    /\ train_mean' = slp_train_mean(train_data)
    /\ y' = slp_y(train_data, slp_train_mean(train_data))
    /\ pc' = "loop"
    /\ UNCHANGED <<sortVars, dataVars, learning_rate, threshold, variant,
                   weights_vec, pass, idx, misclassified, last_step, zero_pass,
                   left_by>>

MultiPanic ==
    /\ UNCHANGED <<fnVars, twin>>
    /\ pc = "call" /\ variant = "multi"
    /\ multi_panics(train_data, test_data)
    /\ pc' = "panic"
    /\ UNCHANGED <<sortVars, dataVars, slpVars>>

\* perceptron.rs:151-188: up to the training loop; the HashSet yields the
\* classes in some order, each gets its own random weights
MultiStart ==
    /\ UNCHANGED fnVars
    /\ pc = "call" /\ variant = "multi"
    /\ ~multi_panics(train_data, test_data)
    /\ \E order \in Orders(classes_of(train_data)) :
          IF order = <<>> THEN weights_vec' = <<>> /\ twin' = twin
          ELSE \E ws \in [1..Len(order) ->
                            generate_random_weights(Len(test_data[1].point) + 1)] :
                  /\ weights_vec' = [n \in 1..Len(order) |->
                                        [class |-> order[n], w |-> ws[n]]]
                  /\ \E twin_order \in Orders(classes_of(train_data)) :
                        twin' = TwinStart(twin, ws, twin_order)
    /\ train_mean' = slp_train_mean(train_data)
    /\ y' = slp_y(train_data, slp_train_mean(train_data))
    /\ pc' = "loop"
    /\ UNCHANGED <<sortVars, dataVars, learning_rate, threshold, variant,
                   weights, pos_class, neg_class, pass, idx, misclassified,
                   last_step, zero_pass, left_by>>

\* perceptron.rs:73-77 and :192-196: the loop begins another pass: shuffle y,
\* reset the count
BeginPass ==
    /\ UNCHANGED fnVars
    /\ pc = "loop" /\ loop_continues(pass)
    /\ twin' = TwinBeginPass(twin)
    /\ \E order \in Orders(1..Len(y)) : y' = [i \in 1..Len(y) |-> y[order[i]]]
    /\ misclassified' = 0
    /\ idx' = 1
    /\ pass' = pass + 1
    /\ last_step' = <<>>
    /\ pc' = "step"
    /\ UNCHANGED <<sortVars, dataVars, learning_rate, threshold, variant, weights,
                   weights_vec, pos_class, neg_class, train_mean, zero_pass,
                   left_by>>

\* the range 0..10_000 is exhausted
LoopExhausted ==
    /\ UNCHANGED <<fnVars, twin>>
    /\ pc = "loop" /\ ~loop_continues(pass)
    /\ left_by' = "cap"
    /\ pc' = "infer"
    /\ UNCHANGED <<sortVars, dataVars, learning_rate, threshold, variant, weights,
                   weights_vec, pos_class, neg_class, train_mean, y, pass, idx,
                   misclassified, last_step, zero_pass>>

\* perceptron.rs:80-100: the step for y[idx] in the binary variant
SlpTrainStep ==
    /\ UNCHANGED <<fnVars, twin>>
    /\ pc = "step" /\ variant = "binary" /\ idx <= Len(y)
    /\ \E r \in {slp_step(weights, misclassified, y[idx], pos_class, learning_rate)} :
           /\ weights' = r.weights
           /\ misclassified' = r.misclassified
    /\ last_step' = [weights |-> weights, misclassified |-> misclassified]
    /\ idx' = idx + 1
    /\ UNCHANGED <<pc, sortVars, dataVars, learning_rate, threshold, variant,
                   weights_vec, pos_class, neg_class, train_mean, y, pass,
                   zero_pass, left_by>>

\* perceptron.rs:199-226: the step for y[idx] in the multiclass variant
MultiTrainStep ==
    /\ UNCHANGED fnVars
    /\ pc = "step" /\ variant = "multi" /\ idx <= Len(y)
    /\ \E r \in {multi_step(weights_vec, misclassified, y[idx], learning_rate)} :
           /\ weights_vec' = r.weights_vec
           /\ misclassified' = r.misclassified
    /\ twin' = TwinStep(twin, y[idx], learning_rate)
    /\ last_step' = [weights_vec |-> weights_vec, misclassified |-> misclassified]
    /\ idx' = idx + 1
    /\ UNCHANGED <<pc, sortVars, dataVars, learning_rate, threshold, variant,
                   weights, pos_class, neg_class, train_mean, y, pass, zero_pass,
                   left_by>>

\* perceptron.rs:102-105 and :228-231: the pass is over; break or loop on
EndPass ==
    /\ UNCHANGED fnVars
    /\ pc = "step" /\ idx > Len(y)
    /\ zero_pass' = (zero_pass \/ misclassified = 0)
    /\ twin' = TwinEndPass(twin, threshold, train_data)
    /\ IF stop_early(misclassified, threshold, train_data)
       THEN pc' = "infer" /\ left_by' = "break"
       ELSE pc' = "loop" /\ left_by' = left_by
    /\ last_step' = <<>>
    /\ UNCHANGED <<sortVars, dataVars, learning_rate, threshold, variant, weights,
                   weights_vec, pos_class, neg_class, train_mean, y, pass, idx,
                   misclassified>>

\* perceptron.rs:108-126: the binary variant classifies the test data
SlpInfer ==
    /\ UNCHANGED <<fnVars, twin>>
    /\ pc = "infer" /\ variant = "binary"
    /\ class_results' =
          [i \in 1..Len(test_data) |->
              Classification(i, slp_class_guess(weights, train_mean, pos_class,
                                                neg_class, test_data[i]))]
    /\ pc' = "ret"
    /\ UNCHANGED <<sortVars, train_data, test_data, num_neighbors, slpVars>>

\* perceptron.rs:234-252: the multiclass variant classifies the test data
MultiInfer ==
    /\ UNCHANGED fnVars
    /\ pc = "infer" /\ variant = "multi"
    /\ class_results' =
          [i \in 1..Len(test_data) |->
              Classification(i,
                  class_or_default(multi_max(weights_vec,
                                             augment(test_data[i].point, train_mean))))]
    /\ \E tw \in TwinRuns(twin, pass, y, learning_rate, threshold, train_data) :
          twin' = TwinInfer(tw, test_data, train_mean)
    /\ pc' = "ret"
    /\ UNCHANGED <<sortVars, train_data, test_data, num_neighbors, slpVars>>

NextSlp ==
    \/ SlpPanic \/ SlpStart \/ BeginPass \/ LoopExhausted \/ SlpTrainStep
    \/ EndPass \/ SlpInfer
NextMulti ==
    \/ MultiPanic \/ MultiStart \/ BeginPass \/ LoopExhausted \/ MultiTrainStep
    \/ EndPass \/ MultiInfer
NextPerceptron == NextSlp \/ NextMulti

InitSlp == InitPerceptron({"binary"})
InitMulti == InitPerceptron({"multi"})
InitBoth == InitPerceptron({"binary", "multi"})

SpecSlp == InitSlp /\ [][NextSlp]_vars
SpecMulti == InitMulti /\ [][NextMulti]_vars
\* the multiclass call together with its twin, on training sequences of up to
\* MaxMultiTrain points
InitMultiTwin ==
    /\ InitPerceptronCall({"multi"})
    /\ Len(train_data) <= MaxMultiTrain
    /\ twin = TwinOn
SpecMultiTwin == InitMultiTwin /\ [][NextMulti]_vars
\* The call is one thread of control that runs to completion: while a step
\* can be taken, one is taken.  This is WF_vars(NextPerceptron) written out,
\* WF_vars(A) being []<>~ENABLED <<A>>_vars \/ []<><<A>>_vars: a step of
\* NextPerceptron is enabled exactly while the call has neither returned nor
\* panicked, each of its steps changes pc, idx or pass, and every step that
\* changes vars is a step of NextPerceptron.
Returned == pc \in {"ret", "panic"}
RunsToCompletion == []<>Returned \/ []<><<TRUE>>_vars
SpecPerceptron == InitBoth /\ [][NextPerceptron]_vars /\ RunsToCompletion

-----------------------------------------------------------------------------
(* calls of the Point operators of lin_alg.rs *)

\* the greatest dimension of the Points passed to the operators
MaxDim == 2
\* components of those Points: real, imaginary, negative, mixed, and 2^60
\* and -2^60, whose sum with one of the others rounds
AlgComps == {c0, c1, ci, Cx(R(-2), R(1)),
             FromReal(Float(1, 60)), FromReal(Float(-1, 60))}

InitLinAlg ==
    /\ pc = "call"
    /\ op \in {"add_sub", "dot", "forms"}
    /\ \E points \in {SeqsUpTo(AlgComps, MaxDim)} :
          args \in [a : points, b : points, c : points]
    /\ op = "forms" => args.c = <<>>
    /\ result = <<>>
    /\ NoSort /\ NoData /\ NoSlp /\ NoTwin

\* &a + &b, &b + &a and &(&a + &b) - &b
PointAddSub ==
    /\ pc = "call" /\ op = "add_sub"
    /\ result' = [sum |-> AddRefRef(args.a, args.b) \o <<>>,
                  sum_rev |-> AddRefRef(args.b, args.a) \o <<>>,
                  diff |-> SubRefRef(AddRefRef(args.a, args.b), args.b) \o <<>>]
    /\ pc' = "ret"
    /\ UNCHANGED <<op, args, sortVars, dataVars, slpVars, twin>>

\* a.dot(&c), b.dot(&c) and (&a + &b).dot(&c)
PointDot ==
    /\ pc = "call" /\ op = "dot"
    /\ result' = [a_c |-> dot(args.a, args.c),
                  b_c |-> dot(args.b, args.c),
                  ab_c |-> dot(AddRefRef(args.a, args.b), args.c)]
    /\ pc' = "ret"
    /\ UNCHANGED <<op, args, sortVars, dataVars, slpVars, twin>>

\* a + b and a - b in every operand form: a and b owned, both borrowed, b
\* borrowed, a borrowed, and the assignments a += &b, a += b, a -= &b, a -= b
\* (the value of a afterwards)
PointForms ==
    /\ pc = "call" /\ op = "forms"
    /\ result' = [add |-> [owned |-> AddOwned(args.a, args.b) \o <<>>,
                           ref_ref |-> AddRefRef(args.a, args.b) \o <<>>,
                           owned_ref |-> AddRef(args.a, args.b) \o <<>>,
                           ref_owned |-> AddRefOwned(args.a, args.b) \o <<>>,
                           assign_ref |-> AddAssignRef(args.a, args.b) \o <<>>,
                           assign |-> AddAssignOwned(args.a, args.b) \o <<>>],
                  sub |-> [owned |-> SubOwned(args.a, args.b) \o <<>>,
                           ref_ref |-> SubRefRef(args.a, args.b) \o <<>>,
                           owned_ref |-> SubRef(args.a, args.b) \o <<>>,
                           ref_owned |-> SubRefOwned(args.a, args.b) \o <<>>,
                           assign_ref |-> SubAssignRef(args.a, args.b) \o <<>>,
                           assign |-> SubAssignOwned(args.a, args.b) \o <<>>]]
    /\ pc' = "ret"
    /\ UNCHANGED <<op, args, sortVars, dataVars, slpVars, twin>>

NextLinAlg == PointAddSub \/ PointDot \/ PointForms
SpecLinAlg == InitLinAlg /\ [][NextLinAlg]_vars

-----------------------------------------------------------------------------
(* calls of Complex::magnitude of complex.rs *)

\* the greatest absolute value of the real and the imaginary part
MaxAbs == 13
\* the numbers magnitude is called on: integer parts, and a sum of squares
\* that is a square, so that hypot is exact (a part of 0 included)
MagnitudeArgs ==
    {z \in {Cx(R(a), R(b)) : a, b \in (-MaxAbs)..MaxAbs} :
        RMul(hypot(z.re, z.im), hypot(z.re, z.im))
            = RAdd(RMul(z.re, z.re), RMul(z.im, z.im))}

InitComplex ==
    /\ pc = "call"
    /\ op = "magnitude"
    /\ args \in MagnitudeArgs
    /\ result = <<>>
    /\ NoSort /\ NoData /\ NoSlp /\ NoTwin

\* z.magnitude()
ComplexMagnitude ==
    /\ pc = "call" /\ op = "magnitude"
    /\ result' = complex_magnitude(args)
    /\ pc' = "ret"
    /\ UNCHANGED <<op, args, sortVars, dataVars, slpVars, twin>>

NextComplex == ComplexMagnitude
SpecComplex == InitComplex /\ [][NextComplex]_vars

-----------------------------------------------------------------------------
(* lib.rs: TryFrom<&str> for DataPoint<T>, with T an unsigned integer *)

\* A &str is a sequence of characters, a character a string of length one.
\* The characters the lines are made of: white space, digits, the characters
\* of a decimal number (sign, point, exponent mark) and the two characters
\* Complex::from_str looks for.
Chars == {" ", "0", "1", "2", "+", "-", ".", "e", "i"}
\* the greatest length of a line
MaxLine == 5
\* the greatest number of digits of an exponent in a line (10^e is kept as an
\* integer)
MaxExpDigits == 1

IsDigit(ch) == ch \in {"0", "1", "2", "3", "4", "5", "6", "7", "8", "9"}
DigitVal(ch) ==
    CASE ch = "0" -> 0 [] ch = "1" -> 1 [] ch = "2" -> 2 [] ch = "3" -> 3
      [] ch = "4" -> 4 [] ch = "5" -> 5 [] ch = "6" -> 6 [] ch = "7" -> 7
      [] ch = "8" -> 8 [] ch = "9" -> 9

RECURSIVE DecVal(_)
\* the number a string of decimal digits denotes (0 for the empty string)
DecVal(s) ==
    IF s = <<>> THEN 0 ELSE 10 * DecVal(SubSeq(s, 1, Len(s) - 1)) + DigitVal(s[Len(s)])

RECURSIVE Pow10(_)
Pow10(k) == IF k = 0 THEN 1 ELSE 10 * Pow10(k - 1)

AllDigits(s) == \A n \in 1..Len(s) : IsDigit(s[n])

\* the position of the first ch in s, Len(s) + 1 when there is none
FirstIndex(s, ch) ==
    IF \E n \in 1..Len(s) : s[n] = ch
    THEN CHOOSE n \in 1..Len(s) : s[n] = ch /\ \A m \in 1..(n - 1) : s[m] # ch
    ELSE Len(s) + 1

\* str::parse::<T>() for an unsigned integer T: an optional "+" sign, then one
\* digit or more.  The Result is <<>> for Err(_) and <<v>> for Ok(v).
parse_unsigned(s) ==
    LET digits == IF s # <<>> /\ s[1] = "+" THEN Tail(s) ELSE s
    IN  IF digits # <<>> /\ AllDigits(digits)
        THEN <<DecVal(digits)>>
        ELSE <<>>

\* lib.rs:46 last.parse::<T>()
parse_class(s) == parse_unsigned(s)

\* the ASCII letters f64::from_str reads in either case, in lower case
to_ascii_lowercase(ch) ==
    CASE ch = "A" -> "a" [] ch = "E" -> "e" [] ch = "F" -> "f" [] ch = "I" -> "i"
      [] ch = "N" -> "n" [] ch = "T" -> "t" [] ch = "Y" -> "y" [] OTHER -> ch

\* complex.rs:254 re.parse() and im.parse(), str::parse::<f64>():
\*     Number ::= [sign] ( 'inf' | 'infinity' | 'nan' | Decimal [Exp] )
\*     Decimal ::= Digit+ | Digit+ '.' Digit* | Digit* '.' Digit+
\*     Exp ::= 'e' [sign] Digit+
\* with sign '+' or '-' and letters of either case.  The Result is <<>> for
\* Err(_) and <<v>> for Ok(v): v is "inf", "-inf" or "NaN", or the rational the
\* decimal denotes, which stands for the f64 nearest to it (two decimals of a
\* line of up to MaxLine characters that differ in value differ in that f64).
parse_f64(s) ==
    LET signed == s # <<>> /\ s[1] \in {"+", "-"}
        negative == signed /\ s[1] = "-"
        rest == IF signed THEN Tail(s) ELSE s
        body == [n \in 1..Len(rest) |-> to_ascii_lowercase(rest[n])] \o <<>>
        epos == FirstIndex(body, "e")
        decimal == SubSeq(body, 1, epos - 1)
        exp == SubSeq(body, epos + 1, Len(body))
        exp_signed == exp # <<>> /\ exp[1] \in {"+", "-"}
        exp_digits == IF exp_signed THEN Tail(exp) ELSE exp
        dot_pos == FirstIndex(decimal, ".")
        int_digits == SubSeq(decimal, 1, dot_pos - 1)
        frac_digits == SubSeq(decimal, dot_pos + 1, Len(decimal))
        e == IF epos > Len(body) THEN 0
             ELSE IF exp_signed /\ exp[1] = "-" THEN 0 - DecVal(exp_digits)
             ELSE DecVal(exp_digits)
        mantissa == DecVal(int_digits \o frac_digits)
    IN  IF body \in {<<"i", "n", "f">>, <<"i", "n", "f", "i", "n", "i", "t", "y">>}
        THEN <<IF negative THEN "-inf" ELSE "inf">>
        ELSE IF body = <<"n", "a", "n">> THEN <<"NaN">>
        ELSE IF /\ AllDigits(int_digits) /\ AllDigits(frac_digits)
                /\ int_digits \o frac_digits # <<>>
                /\ epos <= Len(body) => (exp_digits # <<>> /\ AllDigits(exp_digits))
        THEN <<Rat((IF negative THEN -1 ELSE 1) * mantissa
                       * Pow10(IF e > 0 THEN e ELSE 0),
                   Pow10(Len(frac_digits)) * Pow10(IF e < 0 THEN 0 - e ELSE 0))>>
        ELSE <<>>

\* complex.rs:248-257 Complex::from_str: split_once('+'), else the imaginary
\* part is "0.0i"; the imaginary part ends before its first 'i'
complex_from_str(s) ==
    LET plus == FirstIndex(s, "+")
        re == IF plus <= Len(s) THEN SubSeq(s, 1, plus - 1) ELSE s
        im0 == IF plus <= Len(s) THEN SubSeq(s, plus + 1, Len(s))
               ELSE <<"0", ".", "0", "i">>
        im == SubSeq(im0, 1, FirstIndex(im0, "i") - 1)
    IN  IF parse_f64(re) = <<>> \/ parse_f64(im) = <<>> THEN <<>>
        ELSE <<Cx(parse_f64(re)[1], parse_f64(im)[1])>>

RECURSIVE split_whitespace(_)
\* lib.rs:39 value.split_whitespace().collect(): the maximal runs of
\* characters that are not white space
split_whitespace(value) ==
    IF value = <<>> THEN <<>>
    ELSE IF value[1] = " " THEN split_whitespace(Tail(value))
    ELSE LET end == FirstIndex(value, " ")
         IN  <<SubSeq(value, 1, end - 1)>>
                 \o split_whitespace(SubSeq(value, end, Len(value)))

\* try_from with the order of the tokens mistaken: the first one is the class
try_from_first_is_class(value) ==
    LET data == split_whitespace(value)
    IN  IF data = <<>> THEN [ok |-> FALSE, err |-> "Cannot parse empty line of data"]
        ELSE LET class == parse_class(data[1])
                 point == [n \in 1..(Len(data) - 1) |-> complex_from_str(data[n + 1])]
             IN  IF class = <<>> THEN [ok |-> FALSE, err |-> "class"]
                 ELSE IF \E n \in 1..Len(point) : point[n] = <<>>
                 THEN [ok |-> FALSE, err |-> "point"]
                 ELSE [ok |-> TRUE,
                       value |-> DataPoint([n \in 1..Len(point) |-> point[n][1]] \o <<>>,
                                           class[1])]

\* lib.rs:37-56 DataPoint::try_from: Err(_) is [ok |-> FALSE, err |-> which],
\* Ok(d) is [ok |-> TRUE, value |-> d]
try_from(value) ==
    LET data == split_whitespace(value)
    IN  IF data = <<>> THEN [ok |-> FALSE, err |-> "Cannot parse empty line of data"]
        ELSE LET class == parse_class(data[Len(data)])
                 point == [n \in 1..(Len(data) - 1) |-> complex_from_str(data[n])]
             IN  IF class = <<>> THEN [ok |-> FALSE, err |-> "class"]
                 ELSE IF \E n \in 1..Len(point) : point[n] = <<>>
                 THEN [ok |-> FALSE, err |-> "point"]
                 ELSE [ok |-> TRUE,
                       value |-> DataPoint([n \in 1..Len(point) |-> point[n][1]] \o <<>>,
                                           class[1])]

\* no exponent of the line has more than MaxExpDigits digits
ShortExponents(line) ==
    \A n \in 1..Len(line) :
        line[n] = "e" =>
            LET from == IF n < Len(line) /\ line[n + 1] \in {"+", "-"} THEN n + 2 ELSE n + 1
            IN  ~\A m \in from..(from + MaxExpDigits) : m <= Len(line) /\ IsDigit(line[m])

InitParse ==
    /\ pc = "call"
    /\ op = "try_from"
    /\ args \in [value : {line \in SeqsUpTo(Chars, MaxLine) : ShortExponents(line)}]
    /\ result = <<>>
    /\ NoSort /\ NoData /\ NoSlp /\ NoTwin

\* DataPoint::<T>::try_from(value) returns
DataPointTryFrom ==
    /\ pc = "call" /\ op = "try_from"
    /\ result' = try_from(args.value)
    /\ pc' = "ret"
    /\ UNCHANGED <<op, args, sortVars, dataVars, slpVars, twin>>

NextParse == DataPointTryFrom
SpecParse == InitParse /\ [][NextParse]_vars

-----------------------------------------------------------------------------
(* what the claims speak of, stated without the operators of the model *)

RECURSIVE RSum(_)
\* the sum of a sequence of rationals
RSum(s) == IF s = <<>> THEN R(0) ELSE RAdd(s[1], RSum(Tail(s)))

\* |c|^2
AbsSq(c) == RAdd(RMul(c.re, c.re), RMul(c.im, c.im))
\* component i of the vector p, zero beyond its dimension
Comp(p, i) == IF i <= Len(p) THEN p[i] ELSE CZero
\* the squared Euclidean distance of a and b, the shorter one padded with zeros
EuclidSq(a, b) ==
    RSum([i \in 1..Max(Len(a), Len(b)) |-> AbsSq(CSub(Comp(a, i), Comp(b, i)))] \o <<>>)
RLe(a, b) == ~RLt(b, a)

\* the number of positions of the sequence s that hold the element e
Count(s, e) == Cardinality({i \in 1..Len(s) : s[i] = e})

\* the indices of the training points of class c
Members(train, c) == {i \in 1..Len(train) : train[i].class = c}
\* how many of the training points with indices in N have class c
VotesIn(train, N, c) == Cardinality(N \cap Members(train, c))
\* N holds k training points nearest to x: no point outside N is nearer to x
\* than a point of N
NearestSet(train, x, k, N) ==
    /\ N \subseteq 1..Len(train)
    /\ Cardinality(N) = k
    /\ \A i \in N, j \in (1..Len(train)) \ N :
          RLe(EuclidSq(train[i].point, x), EuclidSq(train[j].point, x))

\* the centroid of class c: component i is the mean of the i-th components
\* (zero-padded) of the training vectors of class c
Centroid(train, c) ==
    LET M == Members(train, c)
        dim == CHOOSE d \in {Len(train[i].point) : i \in M} :
                  \A i \in M : Len(train[i].point) <= d
        RECURSIVE SumOver(_, _)
        SumOver(S, n) ==
            IF S = {} THEN CZero
            ELSE LET i == CHOOSE z \in S : TRUE
                 IN  CAdd(Comp(train[i].point, n), SumOver(S \ {i}, n))
    IN  [n \in 1..dim |-> CScale(SumOver(M, n), Rat(1, Cardinality(M)))] \o <<>>

\* Re(2 * conj(mu) . x - mu . conj(mu)), the sums over the common dimensions
\* of mu and x and over the dimensions of mu
Discriminant(mu, x) ==
    RSub(RMul(R(2), RSum([i \in 1..Min(Len(mu), Len(x)) |->
                             CMul(conjugate(mu[i]), x[i]).re] \o <<>>)),
         RSum([i \in 1..Len(mu) |-> AbsSq(mu[i])] \o <<>>))

-----------------------------------------------------------------------------
(* the claims *)

\* C1: after partial_sort_by(k) with 0 <= k <= n the first k elements are in
\* ascending order, none of them is greater than an element behind them (they
\* are the k smallest), and the slice is a permutation of the original slice.
C1_PartialSortSelects ==
    (pc = "ret" /\ num_sorted <= Len(slice0)) =>
        /\ \A i \in 1..(num_sorted - 1) : dist_cmp(slice[i], slice[i + 1]) # "Greater"
        /\ \A i \in 1..num_sorted, j \in (num_sorted + 1)..Len(slice) :
              dist_cmp(slice[i], slice[j]) # "Greater"
        /\ Len(slice) = Len(slice0)
        /\ \A e \in SortElems : Count(slice, e) = Count(slice0, e)

\* a slice of four elements was partially sorted for k = 2: elements moved, and
\* the unsorted rest is not in order
C1_Witness ==
    /\ pc = "ret" /\ num_sorted = 2 /\ Len(slice0) = 4
    /\ slice # slice0
    /\ dist_cmp(slice[3], slice[4]) = "Greater"
    /\ dist_cmp(slice0[1], slice0[2]) = "Greater"

\* C2: for 1 <= k <= training_set.len(), the label k_nearest_neighbor predicts
\* for a test point has the greatest number of occurrences among k training
\* points nearest to the test point (squared Euclidean distance of the
\* zero-padded difference), and occurs among them.
C2_KnnMajority ==
    (pc = "ret" /\ 1 <= num_neighbors /\ num_neighbors <= Len(train_data)) =>
        \A t \in 1..Len(test_data) :
            \E N \in SUBSET (1..Len(train_data)) :
                /\ NearestSet(train_data, test_data[t].point, num_neighbors, N)
                /\ VotesIn(train_data, N, class_results[t].class_guess) >= 1
                /\ \A c \in Labels :
                      VotesIn(train_data, N, c)
                          <= VotesIn(train_data, N, class_results[t].class_guess)

\* two of three training points are the neighbours, the third (of another
\* class) is strictly nearer in training order but farther away, and the
\* guess won the vote two to nothing
C2_Witness ==
    /\ pc = "ret" /\ num_neighbors = 2 /\ Len(train_data) = 3 /\ Len(test_data) >= 1
    /\ train_data[1].class # class_results[1].class_guess
    /\ train_data[2].class = class_results[1].class_guess
    /\ train_data[3].class = class_results[1].class_guess
    /\ RLt(EuclidSq(train_data[3].point, test_data[1].point),
           EuclidSq(train_data[1].point, test_data[1].point))
    /\ RLt(EuclidSq(train_data[2].point, test_data[1].point),
           EuclidSq(train_data[1].point, test_data[1].point))

\* C3: k_nearest_neighbor called with num_neighbors > training_set.len()
\* panics: it never returns, and it builds no classification result.
C3_KnnFailsFast ==
    (num_neighbors > Len(train_data) /\ pc # "call") =>
        (pc = "panic" /\ class_results = <<>>)

\* the call panicked on k = n + 1 with two test points to classify
C3_Witness ==
    /\ pc = "panic" /\ num_neighbors = Len(train_data) + 1
    /\ Len(test_data) = 2 /\ Len(train_data) = 2

\* C4: for a non-empty training set, the label bayes_plug_in predicts for a
\* test point x is a training label whose centroid mu maximises
\* Re(2*conj(mu).x - mu.conj(mu)) among the centroids of the training labels,
\* and whose centroid has the least squared Euclidean distance to x.
C4_BayesNearestCentroid ==
    (pc = "ret" /\ train_data # <<>>) =>
        \A t \in 1..Len(test_data) :
            LET x == test_data[t].point
                g == class_results[t].class_guess
            IN  /\ g \in classes_of(train_data)
                /\ \A c \in classes_of(train_data) :
                      /\ RLe(Discriminant(Centroid(train_data, c), x),
                             Discriminant(Centroid(train_data, g), x))
                      /\ RLe(EuclidSq(Centroid(train_data, g), x),
                             EuclidSq(Centroid(train_data, c), x))

\* a complex test point, two classes, the centroid of the guess built from
\* two vectors of different dimension, and strictly nearer than another centroid
C4_Witness ==
    /\ pc = "ret" /\ Len(train_data) = 3 /\ Len(test_data) >= 1
    /\ test_data[1].point = <<ci>>
    /\ Cardinality(classes_of(train_data)) = 2
    /\ LET g == class_results[1].class_guess
       IN  /\ Cardinality(Members(train_data, g)) = 2
           /\ \E i, j \in Members(train_data, g) :
                 Len(train_data[i].point) # Len(train_data[j].point)
           /\ \E c \in classes_of(train_data) :
                 RLt(EuclidSq(Centroid(train_data, g), <<ci>>),
                     EuclidSq(Centroid(train_data, c), <<ci>>))

\* C5: bayes_plug_in with an empty training set returns (it does not panic)
\* one result per test point, each with T::default() as its guess.
C5_BayesEmptyTraining ==
    (train_data = <<>> /\ pc # "call") =>
        /\ pc = "ret"
        /\ Len(class_results) = Len(test_data)
        /\ \A t \in 1..Len(test_data) :
              class_results[t] = Classification(t, DefaultLabel)

\* the call returned two default guesses for an empty training set
C5_Witness ==
    /\ pc = "ret" /\ train_data = <<>> /\ Len(test_data) = 2
    /\ Len(class_results) = 2

\* C6: single_layer_perceptron on a training set with fewer than two distinct
\* labels (empty, or one label throughout) panics: no training pass has run
\* and no result exists.
C6_SlpNeedsTwoLabels ==
    (variant = "binary" /\ Cardinality(classes_of(train_data)) < 2 /\ pc # "call") =>
        (pc = "panic" /\ pass = 0 /\ class_results = <<>> /\ weights = <<>>)

\* the call panicked on three training points of one label
C6_Witness ==
    /\ variant = "binary" /\ pc = "panic"
    /\ Len(train_data) = 3 /\ Cardinality(classes_of(train_data)) = 1

\* the step just taken for the augmented point d moved the weights as the
\* perceptron rule does for the target value (+1 or -1): the guess is the side
\* of the dot product, a right guess leaves weights and count alone, a wrong
\* one adds learning_rate * (target - guess) * d and counts one more
TrainedAs(d, target) ==
    LET before == last_step.weights
        lin == RSum([n \in 1..Min(Len(before), Len(d.point)) |->
                        CMul(before[n], d.point[n]).re] \o <<>>)
    IN  \E guess \in {1, -1} :
           /\ RLt(R(0), lin) => guess = 1
           /\ RLt(lin, R(0)) => guess = -1
           /\ IF guess = target
              THEN weights = before /\ misclassified = last_step.misclassified
              ELSE /\ misclassified = last_step.misclassified + 1
                   /\ Len(weights) = Len(before)
                   /\ \A n \in 1..Len(before) :
                         weights[n] =
                             CAdd(before[n],
                                  CScale(d.point[n],
                                         RMul(learning_rate, R(target - guess))))

\* C7: in single_layer_perceptron the positive class is the label of the first
\* training point, the negative class is the first label in training order
\* that differs from it, every training point is trained as +1 when its label
\* is the positive class and as -1 otherwise (a third label too), and every
\* predicted label is the positive or the negative class.
C7_TwoClassReduction ==
    (variant = "binary" /\ pc \notin {"call", "panic"}) =>
        /\ pos_class = train_data[1].class
        /\ neg_class # pos_class
        /\ \E i \in 1..Len(train_data) :
              /\ train_data[i].class = neg_class
              /\ \A j \in 1..(i - 1) : train_data[j].class = pos_class
        /\ (pc = "step" /\ idx > 1) =>
              TrainedAs(y[idx - 1], IF y[idx - 1].class = pos_class THEN 1 ELSE -1)
        /\ pc = "ret" =>
              \A t \in 1..Len(test_data) :
                  class_results[t].class_guess \in {pos_class, neg_class}

\* a training point of a third label has just been stepped over and has moved
\* the weights
C7_Witness ==
    /\ variant = "binary" /\ pc = "step" /\ idx > 1
    /\ y[idx - 1].class \notin {pos_class, neg_class}
    /\ weights # last_step.weights
    /\ misclassified = last_step.misclassified + 1

\* C8: in both perceptron variants the training loop runs at most PassCap
\* (10,000) passes, every call comes to its end, and a call that has reached
\* the training loop goes on to inference and returns.
C8_TrainingTerminates ==
    /\ [](pass <= PassCap)
    /\ <>Returned
    /\ (pc = "loop") ~> (pc = "ret")

\* the binary variant returned after the last pass the cap allows, that pass
\* still misclassifying: the training set holds one vector under two labels
C8_Witness ==
    /\ variant = "binary" /\ pc = "ret" /\ left_by = "cap" /\ pass = PassCap
    /\ misclassified > 0 /\ ~zero_pass
    /\ \E i, j \in 1..Len(train_data) :
          /\ train_data[i].point = train_data[j].point
          /\ train_data[i].class # train_data[j].class

\* C9: when a pass is over, training stops early exactly if the misclassified
\* fraction of that pass is below the threshold, and with threshold 0.0
\* exactly if the pass misclassified nothing: so with threshold 0.0, once a
\* pass without misclassification is over the loop has been left by its break.
C9_StopsAtFirstCleanPass ==
    /\ (pc = "infer" /\ left_by = "break") =>
          IF threshold = R(0) THEN misclassified = 0
          ELSE RLt(R(misclassified), RMul(threshold, R(Len(train_data))))
    /\ (pc = "loop" /\ pass >= 1) =>
          IF threshold = R(0) THEN misclassified # 0
          ELSE ~RLt(R(misclassified), RMul(threshold, R(Len(train_data))))
    /\ (threshold = R(0) /\ zero_pass) => left_by = "break"

\* the training data has two labels and one dimension, and a point on the real
\* line separates the vectors of the one label from those of the other
LinearlySeparable(train) ==
    /\ Cardinality(classes_of(train)) = 2
    /\ \A i \in 1..Len(train) : Len(train[i].point) = 1 /\ train[i].point[1].im = R(0)
    /\ \E s \in {1, -1} :
          \A i, j \in 1..Len(train) :
              (train[i].class = train[1].class /\ train[j].class # train[1].class) =>
                  RLt(RMul(R(s), train[i].point[1].re), RMul(R(s), train[j].point[1].re))

\* C10: on linearly separable two-class training data, once a pass has had a
\* misclassified count of 0 the weights single_layer_perceptron ends with
\* classify every training point to its own class.
C10_SeparableConverged ==
    (variant = "binary" /\ pc = "ret" /\ LinearlySeparable(train_data) /\ zero_pass) =>
        \A i \in 1..Len(train_data) :
            slp_class_guess(weights, train_mean, pos_class, neg_class, train_data[i])
                = train_data[i].class
\* the call has returned one result per test point, in order, result i
\* referencing test point i
ResultsAligned ==
    /\ Len(class_results) = Len(test_data)
    /\ \A i \in 1..Len(test_data) : class_results[i].data = i

\* C11: a perceptron classifier called with valid training data (two distinct
\* labels for the binary variant, at least one point for the multiclass
\* variant) and a test sequence of any length, the empty one included, does
\* not fail, and returns one result per test point, in order, result i
\* referencing test point i.
C11_OneResultPerTestPoint ==
    (/\ pc # "call"
     /\ \/ variant = "binary" /\ Cardinality(classes_of(train_data)) >= 2
        \/ variant = "multi" /\ train_data # <<>>) =>
        /\ pc # "panic"
        /\ pc = "ret" => ResultsAligned
\* the vector p padded with zeros to n dimensions
Padded(p, n) == [i \in 1..n |-> Comp(p, i)]

RECURSIVE TrailingZeros(_)
\* how many times 2 divides the positive integer n
TrailingZeros(n) == IF n % 2 = 1 THEN 0 ELSE 1 + TrailingZeros(n \div 2)

\* the real sum of the f64 u and v has at most 53 significant bits, counted
\* from the highest bit either operand can set, one place up for the carry,
\* down to the lowest bit either operand sets: then it is an f64, and u + v
\* does not round
SumFits(u, v) ==
    \/ u[1] = 0
    \/ v[1] = 0
    \/ LET high(w) == Exp(w) + BitLen(Abs(w[1]))
           lowest(w) == Exp(w) + TrailingZeros(Abs(w[1]))
       IN  Max(high(u), high(v)) + 1 - Min(lowest(u), lowest(v)) <= 53
CxSumFits(u, v) == SumFits(u.re, v.re) /\ SumFits(u.im, v.im)

\* C12 as the specification states it: for vectors a and b of possibly
\* different dimension, a + b = b + a, the sum is the componentwise sum of
\* the zero-padded operands, and (a + b) - b is a padded with zeros to
\* max(dim(a), dim(b)).
C12_AddCommutesSubInverts ==
    (pc = "ret" /\ op = "add_sub") =>
        LET n == Max(Len(args.a), Len(args.b))
        IN  /\ result.sum = result.sum_rev
            /\ result.sum = [i \in 1..n |-> CAdd(Comp(args.a, i), Comp(args.b, i))]
            /\ result.diff = Padded(args.a, n)

\* C12, amended: for vectors a and b of possibly different dimension,
\* a + b = b + a, the sum is the componentwise f64 sum of the zero-padded
\* operands, (a + b) - b has max(dim(a), dim(b)) dimensions, and its
\* component i is that of a padded with zeros wherever a_i + b_i does not
\* round, which includes every component beyond the dimension of a or of b.
C12_AddCommutesSubInvertsUnrounded ==
    (pc = "ret" /\ op = "add_sub") =>
        LET n == Max(Len(args.a), Len(args.b))
        IN  /\ result.sum = result.sum_rev
            /\ result.sum = [i \in 1..n |-> CAdd(Comp(args.a, i), Comp(args.b, i))]
            /\ Len(result.diff) = n
            /\ \A i \in 1..n :
                  (i > Len(args.a) \/ i > Len(args.b)
                      \/ CxSumFits(args.a[i], args.b[i])) =>
                     result.diff[i] = Padded(args.a, n)[i]

\* a of one dimension and b of two: a_1 = 2^60 and b_1 = -2^60 add without
\* rounding, and the difference is a with a zero appended
C12_Witness ==
    /\ pc = "ret" /\ op = "add_sub"
    /\ Len(args.a) = 1 /\ Len(args.b) = 2
    /\ args.a[1] = FromReal(Float(1, 60)) /\ args.b[1] = FromReal(Float(-1, 60))
    /\ args.b[2] = ci
    /\ CxSumFits(args.a[1], args.b[1])
    /\ result.sum = <<CZero, ci>>
    /\ result.diff = <<FromReal(Float(1, 60)), CZero>>

\* a = (1) and b = (2^60): 1 + 2^60 rounds to 2^60, and (a + b) - b is (0)
C12_RoundedSum ==
    ~(/\ pc = "ret" /\ op = "add_sub"
      /\ args.a = <<c1>> /\ args.b = <<FromReal(Float(1, 60))>>
      /\ result.sum = args.b
      /\ result.diff = <<CZero>>)
\* the sum of the sequence s of complex numbers
RECURSIVE CxSum(_)
CxSum(s) ==
    IF s = <<>> THEN [re |-> R(0), im |-> R(0)]
    ELSE LET r == CxSum(Tail(s))
         IN  [re |-> RAdd(s[1].re, r.re), im |-> RAdd(s[1].im, r.im)]

\* the dot product of a and b, both padded with zeros to n dimensions
PaddedDot(a, b, n) ==
    CxSum([i \in 1..n |-> CMul(Comp(a, i), Comp(b, i))] \o <<>>)

\* re and im of every component of p are integers of magnitude <= 1024: the
\* products and sums of a dot product of such vectors are integers far below
\* 2^53, none of them rounds
SmallIntegers(p) ==
    \A i \in 1..Len(p) :
       \A w \in {p[i].re, p[i].im} :
          Len(w) = 2 /\ w[2] = 1 /\ Abs(w[1]) <= 1024

C13_RoundedSum ==
    ~(/\ pc = "ret" /\ op = "dot"
      /\ args.a = <<FromReal(Float(1, 60)), FromReal(Float(-1, 60))>>
      /\ args.b = <<c1, c0>> /\ args.c = <<c1, c1>>
      /\ result.ab_c = CZero
      /\ CAdd(result.a_c, result.b_c) = c1)
\* C14: with k = 1 the label k_nearest_neighbor predicts for a test point is
\* the label of a training point at minimal distance from it; when a training
\* point equals the test point, it is the label of such a duplicate.
C14_NearestNeighbourLabel ==
    (pc = "ret" /\ num_neighbors = 1) =>
        \A t \in 1..Len(test_data) :
            LET x == test_data[t].point
                g == class_results[t].class_guess
            IN  /\ \E i \in 1..Len(train_data) :
                      /\ train_data[i].class = g
                      /\ \A j \in 1..Len(train_data) :
                            RLe(EuclidSq(train_data[i].point, x),
                                EuclidSq(train_data[j].point, x))
                /\ (\E i \in 1..Len(train_data) : train_data[i].point = x) =>
                      \E i \in 1..Len(train_data) :
                          train_data[i].point = x /\ train_data[i].class = g

\* the duplicate of the test point is the last of three training points, the
\* other two carry other labels, and the guess is the label of the duplicate
C14_Witness ==
    /\ pc = "ret" /\ num_neighbors = 1 /\ Len(train_data) = 3 /\ Len(test_data) >= 1
    /\ train_data[3].point = test_data[1].point
    /\ train_data[1].point # test_data[1].point
    /\ train_data[2].point # test_data[1].point
    /\ train_data[1].class # train_data[3].class
    /\ train_data[2].class # train_data[3].class
    /\ class_results[1].class_guess = train_data[3].class
\* the classes of the k nearest neighbours of the test point x in the order in
\* which the tally of knn.rs:53-59 meets them, nearest first
TallyOrder(x, k) ==
    LET nearest == knn_nearest(train_data, x, k)
    IN  [i \in 1..k |-> train_data[nearest[i].data].class] \o <<>>

\* of the classes with the greatest count in the sequence cls, the one met first
FirstMetMajority(cls) ==
    LET best == CHOOSE i \in 1..Len(cls) :
                    /\ \A j \in 1..Len(cls) : Count(cls, cls[j]) <= Count(cls, cls[i])
                    /\ \A j \in 1..(i - 1) : Count(cls, cls[j]) < Count(cls, cls[i])
    IN  cls[best]

\* C15: the guess of k_nearest_neighbor is a function of training set, test
\* point and k: of the labels with the greatest count among the k nearest
\* neighbours it is the one met first while tallying them, nearest first.
C15_TieByEncounterOrder ==
    (pc = "ret" /\ 1 <= num_neighbors /\ num_neighbors <= Len(train_data)) =>
        \A t \in 1..Len(test_data) :
            class_results[t].class_guess
                = FirstMetMajority(TallyOrder(test_data[t], num_neighbors))
\* the class of the first weight vector of wv, in iteration order, whose score
\* w . point is the greatest
FirstArgMax(wv, point) ==
    LET score(n) == dot(wv[n].w, point).re
        first == CHOOSE n \in 1..Len(wv) :
                     /\ \A m \in 1..Len(wv) : RLe(score(m), score(n))
                     /\ \A m \in 1..(n - 1) : RLt(score(m), score(n))
    IN  wv[first].class

\* C16: in multiclass_single_layer_perceptron the arg-max over the weight
\* vectors takes, of several classes with the same greatest score, the one met
\* first in the iteration: a training step counts a misclassification exactly
\* when that class is not the class of the point, and inference returns that
\* class.
C16_ArgMaxFirstMet ==
    /\ (variant = "multi" /\ pc = "step" /\ idx > 1) =>
          ((misclassified = last_step.misclassified + 1)
              <=> (FirstArgMax(last_step.weights_vec, y[idx - 1].point)
                      # y[idx - 1].class))
    /\ (variant = "multi" /\ pc = "ret" /\ weights_vec # <<>>) =>
          \A t \in 1..Len(test_data) :
              class_results[t].class_guess
                  = FirstArgMax(weights_vec, augment(test_data[t].point, train_mean))
\* C17: multiclass_single_layer_perceptron is deterministic under a fixed
\* random generator: the call and its twin (same arguments, same initial
\* weight draws, same shuffles in the passes both of them run) return the
\* same guess for every test point.
C17_SameDrawsSameGuesses ==
    (variant = "multi" /\ pc = "ret" /\ twin # <<>>) =>
        class_results = twin.class_results
\* C18: multiclass_single_layer_perceptron with an empty training set does not
\* panic, and returns one result per test point, each with T::default() as
\* its guess.
C18_MultiEmptyTraining ==
    (variant = "multi" /\ train_data = <<>> /\ pc # "call") =>
        /\ pc # "panic"
        /\ weights_vec = <<>>
        /\ pc = "ret" =>
              /\ Len(class_results) = Len(test_data)
              /\ \A t \in 1..Len(test_data) :
                    class_results[t] = Classification(t, DefaultLabel)

\* the call on an empty training set went through every pass the cap allows
\* and returned two default guesses
C18_Witness ==
    /\ variant = "multi" /\ pc = "ret" /\ train_data = <<>>
    /\ pass = PassCap /\ left_by = "cap"
    /\ Len(test_data) = 2 /\ Len(class_results) = 2
    /\ class_results[2].class_guess = DefaultLabel
\* the tokens of a line: token k is the k-th maximal run of characters that
\* are not white space
TokenStarts(line) ==
    {n \in 1..Len(line) : line[n] # " " /\ (n = 1 \/ line[n - 1] = " ")}
TokenAt(line, n) ==
    LET end == CHOOSE e \in n..Len(line) :
                   /\ \A m \in n..e : line[m] # " "
                   /\ e = Len(line) \/ line[e + 1] = " "
    IN  SubSeq(line, n, end)
\* the start of the k-th token
KthStart(line, k) ==
    CHOOSE n \in TokenStarts(line) :
        Cardinality({m \in TokenStarts(line) : m <= n}) = k

\* C19: DataPoint::try_from on a line yields the last token as class and the
\* tokens before it, in order, as the components of the point (none for a
\* line of one token); a line without a token, one with a component that
\* Complex::from_str rejects or with a class that T::from_str rejects yields
\* Err and no DataPoint.
C19_ParseLine ==
    (pc = "ret" /\ op = "try_from") =>
        LET line == args.value
            n == Cardinality(TokenStarts(line))
            tok(k) == TokenAt(line, KthStart(line, k))
            bad == \/ n = 0
                   \/ n > 0 /\ parse_class(tok(n)) = <<>>
                   \/ \E k \in 1..(n - 1) : complex_from_str(tok(k)) = <<>>
        IN  IF bad THEN ~result.ok /\ "value" \notin DOMAIN result
            ELSE /\ result.ok
                 /\ result.value.class = parse_class(tok(n))[1]
                 /\ Len(result.value.point) = n - 1
                 /\ \A k \in 1..(n - 1) :
                       result.value.point[k] = complex_from_str(tok(k))[1]

\* the line "1.0 2", one decimal component and a class, was parsed
C19_Witness ==
    /\ pc = "ret" /\ op = "try_from" /\ result.ok
    /\ args.value = <<"1", ".", "0", " ", "2">>
    /\ Len(result.value.point) = 1
    /\ result.value.point[1] = Cx(R(1), R(0))
    /\ result.value.class = 2
\* C20: k_nearest_neighbor with k = 0, on any training set (the empty one
\* included), does not panic and returns T::default() as guess for every test
\* point; the partial sort leaves the distances as they are and the slice of
\* nearest neighbours is empty.
C20_KnnZeroNeighbours ==
    (num_neighbors = 0 /\ pc # "call") =>
        /\ pc = "ret"
        /\ Len(class_results) = Len(test_data)
        /\ \A t \in 1..Len(test_data) :
              /\ class_results[t] = Classification(t, DefaultLabel)
              /\ partial_sort_by(knn_distances(train_data, test_data[t]), 0)
                    = knn_distances(train_data, test_data[t])
              /\ knn_nearest(train_data, test_data[t], 0) = <<>>

\* k = 0 with three training points of labels other than the default, the
\* first farther from the test point than the second: two default guesses
C20_Witness ==
    /\ pc = "ret" /\ num_neighbors = 0 /\ Len(train_data) = 3 /\ Len(test_data) = 2
    /\ RLt(EuclidSq(train_data[2].point, test_data[1].point),
           EuclidSq(train_data[1].point, test_data[1].point))
    /\ class_results[1].class_guess = DefaultLabel
    /\ class_results[2].class_guess = DefaultLabel

\* the true class value of the augmented point d (+1 for the positive class,
\* -1 otherwise) minus the sign predicted for it by the weights w (+1 when
\* the dot product is positive or zero, -1 when it is negative)
StepError(w, d) ==
    LET lin == PaddedDot(w, d.point, Max(Len(w), Len(d.point))).re
    IN  (IF d.class = pos_class THEN 1 ELSE -1) - (IF RLt(lin, R(0)) THEN -1 ELSE 1)

\* C21: in each step of binary perceptron training the error, true class value
\* minus predicted sign, is -2, 0 or +2; when it is 0 the weights and the
\* misclassified count are unchanged, otherwise the count grows by exactly 1
\* and the weights become weights + learning_rate * error * point, point being
\* the centroid-translated training vector with a leading 1.
C21_StepErrorAndUpdate ==
    (variant = "binary" /\ pc = "step" /\ idx > 1) =>
        LET d == y[idx - 1]
            before == last_step.weights
            error == R(StepError(before, d))
            n == Max(Len(before), Len(d.point))
        IN  /\ slp_step(before, last_step.misclassified, d, pos_class,
                        learning_rate).error = error
            /\ error \in {R(-2), R(0), R(2)}
            /\ d.point[1] = [re |-> R(1), im |-> R(0)]
            /\ \E i \in 1..Len(train_data) :
                  /\ d.class = train_data[i].class
                  /\ Len(d.point) = 1 + Max(Len(train_data[i].point), Len(train_mean))
                  /\ \A c \in 2..Len(d.point) :
                        d.point[c] = CSub(Comp(train_data[i].point, c - 1),
                                          Comp(train_mean, c - 1))
            /\ IF error = R(0)
               THEN weights = before /\ misclassified = last_step.misclassified
               ELSE /\ misclassified = last_step.misclassified + 1
                    /\ weights =
                          [i \in 1..n |->
                              CAdd(Comp(before, i),
                                   CScale(Comp(d.point, i),
                                          RMul(learning_rate, error)))]

\* a step of the second pass on a point of the negative class with a
\* non-negative dot product: the error is -2, the weights have moved and the
\* count has grown by one
C21_Witness ==
    /\ variant = "binary" /\ pc = "step" /\ idx > 1 /\ pass = 2
    /\ y[idx - 1].class # pos_class
    /\ StepError(last_step.weights, y[idx - 1]) = -2
    /\ weights # last_step.weights
    /\ misclassified = last_step.misclassified + 1

\* the labels whose weight vector in wv scores the greatest dot product with
\* point
ArgMaxLabels(wv, point) ==
    LET score(n) == PaddedDot(wv[n].w, point, Max(Len(wv[n].w), Len(point))).re
    IN  {wv[n].class : n \in {m \in 1..Len(wv) :
                                  \A k \in 1..Len(wv) : RLe(score(k), score(m))}}

\* the weight vector w moved by sign * learning_rate * point, the shorter of
\* the two padded with zeros
Moved(w, sign, point) ==
    [i \in 1..Max(Len(w), Len(point)) |->
        CAdd(Comp(w, i), CScale(Comp(point, i), RMul(R(sign), learning_rate)))]

\* C22: in each step of multiclass perceptron training the guess is a label of
\* greatest score; if it equals the true label of the point no weight vector
\* (and no count) changes, otherwise learning_rate * point is added to the
\* weight vector of the true label and subtracted from the weight vector of
\* every other label, and the misclassified count grows by exactly 1.
C22_ReinforceAndPunish ==
    (variant = "multi" /\ pc = "step" /\ idx > 1) =>
        LET d == y[idx - 1]
            before == last_step.weights_vec
        IN  \E guess \in ArgMaxLabels(before, d.point) :
               IF guess = d.class
               THEN /\ weights_vec = before
                    /\ misclassified = last_step.misclassified
               ELSE /\ misclassified = last_step.misclassified + 1
                    /\ Len(weights_vec) = Len(before)
                    /\ \A n \in 1..Len(before) :
                          /\ weights_vec[n].class = before[n].class
                          /\ weights_vec[n].w =
                                Moved(before[n].w,
                                      IF before[n].class = d.class THEN 1 ELSE -1,
                                      d.point)

\* three labels: a step on a misclassified point has raised the weight vector
\* of its label and lowered the two others
C22_Witness ==
    /\ variant = "multi" /\ pc = "step" /\ idx > 1
    /\ Len(weights_vec) = 3
    /\ misclassified = last_step.misclassified + 1
    /\ \A n \in 1..3 : weights_vec[n].w # last_step.weights_vec[n].w
    /\ \E n \in 1..3 :
          /\ weights_vec[n].class = y[idx - 1].class
          /\ weights_vec[n].w = Moved(last_step.weights_vec[n].w, 1, y[idx - 1].point)

\* C23: binary perceptron training and inference use the same decision rule:
\* the training step treats a point as correctly classified (no update, not
\* counted) exactly when inference with the same weights assigns the point
\* its own binary class (the positive class for a point of the positive
\* class, the negative class for any other), a dot product of exactly 0
\* included.
C23_TrainInferSameRule ==
    (variant = "binary" /\ pc = "step" /\ idx > 1) =>
        \A i \in 1..Len(train_data) :
            (/\ augment(train_data[i].point, train_mean) = y[idx - 1].point
             /\ train_data[i].class = y[idx - 1].class) =>
                ((/\ weights = last_step.weights
                  /\ misclassified = last_step.misclassified)
                 <=> (slp_class_guess(last_step.weights, train_mean, pos_class,
                                      neg_class, train_data[i])
                         = IF train_data[i].class = pos_class
                           THEN pos_class ELSE neg_class))

\* the operand forms of a binary operator of Point
OperandForms ==
    {"owned", "ref_ref", "owned_ref", "ref_owned", "assign_ref", "assign"}

\* C24: every operand form of vector addition and of vector subtraction
\* (Point op Point, &Point op &Point, Point op &Point, &Point op Point, and
\* the in-place += and -= with either operand form) computes the same result
\* for operands of equal or different dimension: the result has dimension
\* max(dim(a), dim(b)) and component i is a_i op b_i, a missing component
\* taken as 0.
C24_OperandFormsAgree ==
    (pc = "ret" /\ op = "forms") =>
        LET n == Max(Len(args.a), Len(args.b))
        IN  \A f \in OperandForms :
               /\ result.add[f] =
                     [i \in 1..n |-> CAdd(Comp(args.a, i), Comp(args.b, i))]
               /\ result.sub[f] =
                     [i \in 1..n |-> CSub(Comp(args.a, i), Comp(args.b, i))]

\* a of one dimension and b of two, complex components that are not zero:
\* &a - b and &a + b have two dimensions, the second being -b_2 and b_2
C24_Witness ==
    /\ pc = "ret" /\ op = "forms"
    /\ Len(args.a) = 1 /\ Len(args.b) = 2
    /\ args.a[1] = ci /\ args.b = <<c1, Cx(R(-2), R(1))>>
    /\ result.sub.ref_owned = <<Cx(R(-1), R(1)), Cx(R(2), R(-1))>>
    /\ result.add.ref_owned = <<Cx(R(1), R(1)), Cx(R(-2), R(1))>>

\* the position in the sequence s of Dist records of the record of training
\* point j
PosOf(s, j) == CHOOSE p \in 1..Len(s) : s[p].data = j

\* C25: partial_sort_by is stable: after the call, elements that compare Equal
\* are in their original relative order; so in k_nearest_neighbor, of two
\* training points at equal distance from the test point the one earlier in
\* the training sequence stands first among the sorted distances, and the
\* later one is among the neighbours only behind the earlier one.
C25_PartialSortStable ==
    (pc = "ret" /\ num_neighbors <= Len(train_data)) =>
        \A t \in 1..Len(test_data) :
            \E before \in {knn_distances(train_data, test_data[t])} :
            \E after \in {partial_sort_by(before, num_neighbors)} :
            \E nearest \in {knn_nearest(train_data, test_data[t], num_neighbors)} :
            \E far \in {[i \in 1..Len(train_data) |->
                            EuclidSq(train_data[i].point, test_data[t].point)]} :
                \A i, j \in 1..Len(train_data) :
                   (i < j /\ far[i] = far[j]) =>
                       /\ dist_cmp(before[i], before[j]) = "Equal"
                       /\ PosOf(after, i) < PosOf(after, j)
                       /\ \A p \in 1..Len(nearest) :
                             nearest[p].data = j =>
                                 \E q \in 1..(p - 1) : nearest[q].data = i

\* three training points, the first farther from the test point than the
\* second and the third, which are equally far: the sort for k = 2 has moved
\* them to the front, the second before the third
C25_Witness ==
    /\ pc = "ret" /\ num_neighbors = 2 /\ Len(train_data) = 3 /\ Len(test_data) >= 1
    /\ LET x == test_data[1].point
       IN  /\ EuclidSq(train_data[2].point, x) = EuclidSq(train_data[3].point, x)
           /\ RLt(EuclidSq(train_data[2].point, x), EuclidSq(train_data[1].point, x))
           /\ train_data[2] # train_data[3]
           /\ knn_nearest(train_data, test_data[1], 2) =
                 <<knn_distances(train_data, test_data[1])[2],
                   knn_distances(train_data, test_data[1])[3]>>

\* C26: bayes_plug_in depends on the training set only as a multiset: called
\* on any permutation of the training points it predicts the same label for
\* every test point (exact arithmetic), also when several labels have the
\* greatest score; the label returned is then the greatest of those labels
\* in label order.
C26_BayesOrderIndependent ==
    pc = "ret" =>
        /\ \A perm \in Orders(1..Len(train_data)) :
              \E tdw \in {bayes_train_data_weights(
                              [i \in 1..Len(train_data) |-> train_data[perm[i]]])} :
                  \A t \in 1..Len(test_data) :
                      bayes_class_guess(tdw, test_data[t]) = class_results[t].class_guess
        /\ \A t \in 1..Len(test_data) :
              \E score \in {[c \in classes_of(train_data) |->
                                Discriminant(Centroid(train_data, c),
                                             test_data[t].point)]} :
                  \A c \in classes_of(train_data) :
                      (\A o \in classes_of(train_data) : RLe(score[o], score[c])) =>
                          /\ c <= class_results[t].class_guess
                          /\ score[class_results[t].class_guess] = score[c]

\* the first two training points hold the same vector, the first under a
\* greater label than the second; a third label scores less on the test
\* point; the guess is the greater of the two tied labels
C26_Witness ==
    /\ pc = "ret" /\ Len(train_data) = 3 /\ Len(test_data) >= 1
    /\ train_data[1].point = train_data[2].point
    /\ train_data[1].class > train_data[2].class
    /\ train_data[3].class \notin {train_data[1].class, train_data[2].class}
    /\ class_results[1].class_guess = train_data[1].class
    /\ RLt(Discriminant(train_data[3].point, test_data[1].point),
           Discriminant(train_data[1].point, test_data[1].point))

\* C27: in both perceptron variants, after initialisation (the training loop
\* not yet begun) there is one weight vector per class being discriminated,
\* one in the binary variant and one per distinct training label in the
\* multiclass variant, and each weight vector has exactly 1 + d components,
\* d being the dimension of the training points, whatever the test set.
C27_WeightsSizedByTraining ==
    (pc = "loop" /\ pass = 0) =>
        /\ variant = "binary" =>
              \A i \in 1..Len(train_data) :
                  Len(weights) = 1 + Len(train_data[i].point)
        /\ variant = "multi" =>
              /\ Len(weights_vec) = Cardinality(classes_of(train_data))
              /\ {weights_vec[n].class : n \in 1..Len(weights_vec)}
                    = classes_of(train_data)
              /\ \A n \in 1..Len(weights_vec), i \in 1..Len(train_data) :
                    Len(weights_vec[n].w) = 1 + Len(train_data[i].point)

\* C28: Complex::magnitude returns a non-negative value for every complex
\* number: the absolute value of re when im == 0, and otherwise
\* sqrt(re^2 + im^2) (here: the non-negative number whose square is
\* re^2 + im^2).
C28_MagnitudeNonNegative ==
    (pc = "ret" /\ op = "magnitude") =>
        /\ ~RLt(result, R(0))
        /\ IF args.im = R(0)
           THEN result = (IF RLt(args.re, R(0)) THEN RNeg(args.re) ELSE args.re)
           ELSE RMul(result, result) = RAdd(RMul(args.re, args.re),
                                           RMul(args.im, args.im))

====
